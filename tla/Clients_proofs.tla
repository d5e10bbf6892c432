--------------------------- MODULE Clients_proofs ---------------------------
(***************************************************************************)
(* Two programs that race the daemon's events: the run list of the TUI, and     *)
(* the voice sidecar.                                                            *)
(***************************************************************************)
EXTENDS Frontends, Voice, RunLife_proofs

(***************************************************************************)
(* The run list, for any set of runs and any order of events and answers.       *)
(***************************************************************************)

EventKinds == {"started", "ended", "finished"}
Events == [run : Runs, kind : EventKinds]
Shows  == {"absent", "running", "ended"}

\* Where an event stands in the life of its run, and how far a run has come.
Rank(kind) == CASE kind = "started" -> 1 [] kind = "ended" -> 2 [] kind = "finished" -> 3
Far(l) == CASE l = "none" -> 0 [] l = "working" -> 1 [] l = "closing" -> 2 [] l = "over" -> 3
Reached == [r \in Runs |-> Far(life[r])]

\* An event of r that has not been read.
Pending(r, kind) == \E i \in 1 .. Len(wire) : wire[i] = Event(r, kind)

\* What a row can show when nothing of its run is on its way.
Fits(r, row) ==
    /\ life[r] = "none" => row = "absent"
    /\ life[r] # "none" => row \in {"running", "ended"}
    /\ verdict[r] # "none" => row = "ended"

\* A row and the events that are still to change it.
RowFits(r) ==
    IF Pending(r, "started")
    THEN rows[r] = "absent" /\ (verdict[r] # "none" => Pending(r, "ended"))
    ELSE IF Pending(r, "ended") THEN rows[r] \in {"running", "ended"}
    ELSE Fits(r, rows[r])

\* The events of a run come in the order of its life, and tell what has happened.
InOrder ==
    /\ \A i \in 1 .. Len(wire) : Rank(wire[i].kind) <= Reached[wire[i].run]
    /\ \A i, j \in 1 .. Len(wire) : i < j /\ wire[i].run = wire[j].run =>
         Rank(wire[i].kind) < Rank(wire[j].kind)
    /\ \A i \in 1 .. Len(wire) : wire[i].kind = "ended" => verdict[wire[i].run] # "none"

\* An end is shown, or about to be shown, only if it is stored.
EndsAreStored ==
    \A r \in Runs : rows[r] = "ended" \/ listed[r] = "ended" => status[r] \in Terminal

\* The run list, event by event: of a run the list cannot have wrong, nothing is on
\* the wire before the list is shown, and afterwards its row fits what is to come.
ListInv ==
    /\ fpc \in {"connect", "list", "answer", "done"}
    /\ wire \in Seq(Events)
    /\ rows \in [Runs -> Shows] /\ listed \in [Runs -> Shows]
    /\ unsure \subseteq Runs
    /\ InOrder
    /\ EndsAreStored
    /\ fpc # "done" => \A i \in 1 .. Len(wire) : wire[i].run \in unsure
    /\ fpc # "done" => \A r \in Runs \ unsure : rows[r] = "absent"
    /\ fpc = "connect" => wire = <<>>
    /\ fpc = "answer" => \A r \in Runs \ unsure : Fits(r, listed[r])
    /\ fpc = "done" => \A r \in Runs \ unsure : RowFits(r)
    /\ crashed => unsure # {}

\* Only the TUI can crash.
FrontInv ==
    /\ LifeTypes /\ LifeInv
    /\ crashed \in BOOLEAN
    /\ front = "tui" => ListInv
    /\ front # "tui" => ~crashed

\* Events are records of a run and a kind, and no end of the stream is among them.
LEMMA EventFacts ==
    /\ \A r, k : Event(r, k).run = r /\ Event(r, k).kind = k
    /\ \A e \in Events : e = Event(e.run, e.kind) /\ e.run \in Runs /\ e.kind \in EventKinds /\ e # Eof
    /\ \A r \in Runs : \A k \in EventKinds : Event(r, k) \in Events
    /\ Rank("started") = 1 /\ Rank("ended") = 2 /\ Rank("finished") = 3
<1>1. \A r, k : Event(r, k).run = r /\ Event(r, k).kind = k
  BY DEF Event
<1>2. \A r \in Runs : \A k \in EventKinds : Event(r, k) \in Events
  BY DEF Event, Events
<1>3. ASSUME NEW e \in Events
      PROVE  e = Event(e.run, e.kind) /\ e.run \in Runs /\ e.kind \in EventKinds /\ e # Eof
  <2>1. e = Event(e.run, e.kind) /\ e.run \in Runs /\ e.kind \in EventKinds
    BY DEF Event, Events
  <2>2. Eof.kind = "eof" /\ "eof" \notin EventKinds
    BY DEF Eof, EventKinds
  <2> QED BY <2>1, <2>2
<1>4. Rank("started") = 1 /\ Rank("ended") = 2 /\ Rank("finished") = 3
  BY DEF Rank
<1> QED BY <1>1, <1>2, <1>3, <1>4

\* How far a run has come is a number, zero before it has begun.
LEMMA ReachedFacts ==
    ASSUME LifeTypes, NEW r \in Runs
    PROVE  /\ Reached[r] \in 0 .. 3
           /\ Reached[r] = 0 <=> life[r] = "none"
           /\ life[r] = "working" => Reached[r] = 1
           /\ life[r] = "closing" => Reached[r] = 2
           /\ life[r] = "over" => Reached[r] = 3
<1>1. life[r] \in {"none", "working", "closing", "over"}
  BY DEF LifeTypes
<1>2. CASE life[r] = "none"
  BY <1>2 DEF Reached, Far
<1>3. CASE life[r] = "working"
  BY <1>3 DEF Reached, Far
<1>4. CASE life[r] = "closing"
  BY <1>4 DEF Reached, Far
<1>5. CASE life[r] = "over"
  BY <1>5 DEF Reached, Far
<1> QED BY <1>1, <1>2, <1>3, <1>4, <1>5

\* The programs start with an empty list and nothing on the wire.
LEMMA FrontInit == fInit => FrontInv
<1> SUFFICES ASSUME fInit PROVE FrontInv
  OBVIOUS
<1>1. /\ fpc = "connect" /\ wire = <<>> /\ LifeInit
      /\ rows = [r \in Runs |-> "absent"] /\ listed = rows /\ crashed = FALSE /\ unsure = {}
  BY Zenon DEF fInit
<1>2. rows \in [Runs -> Shows] /\ listed \in [Runs -> Shows]
  BY <1>1 DEF Shows
<1>3. wire \in Seq(Events) /\ InOrder /\ Len(wire) = 0
  BY <1>1 DEF InOrder
<1>4. EndsAreStored
  BY <1>1 DEF EndsAreStored
<1>5. ListInv
  BY <1>1, <1>2, <1>3, <1>4 DEF ListInv
<1> QED BY <1>1, <1>5, LifeInitially DEF FrontInv

\* A step of a run is quiet, or it sends the one event that takes its life on.
LEMMA AdvanceKinds ==
    ASSUME LifeTypes, LifeInv, NEW r \in Runs, Advance(r)
    PROVE  /\ LifeNext
           /\ UNCHANGED <<front, fpc, rows, listed, crashed>>
           /\ \/ /\ UNCHANGED <<wire, unsure, verdict>>
                 /\ \A q \in Runs : Reached[q] <= Reached'[q] /\ (life[q] = "none" <=> life'[q] = "none")
              \/ \E k \in EventKinds :
                   /\ Send(r, k)
                   /\ Reached'[r] = Rank(k) /\ Reached[r] = Rank(k) - 1
                   /\ verdict'[r] = verdict[r] \/ (k = "ended" /\ verdict'[r] # "none")
                   /\ k = "ended" => verdict'[r] # "none"
                   /\ k = "started" => verdict'[r] = "none"
                   /\ \A q \in Runs : q # r => /\ Reached'[q] = Reached[q]
                                               /\ life'[q] = life[q] /\ verdict'[q] = verdict[q]
<1>1. /\ UNCHANGED <<front, fpc, rows, listed, crashed>>
      /\ \/ QuietStep(r) /\ UNCHANGED <<wire, unsure>>
         \/ CreateTask(r) /\ Send(r, "started")
         \/ PublishVerdict(r) /\ Send(r, "ended")
         \/ PublishFinished(r) /\ Send(r, "finished")
  BY Zenon DEF Advance
<1>2. LifeNext
  BY <1>1 DEF LifeNext
<1>3. LifeTypes' /\ LifeInv'
  BY <1>2, LifeKept
<1>4. \A q \in Runs : /\ Reached'[q] \in 0 .. 3
                      /\ Reached'[q] = 0 <=> life'[q] = "none"
                      /\ life'[q] = "working" => Reached'[q] = 1
                      /\ life'[q] = "closing" => Reached'[q] = 2
                      /\ life'[q] = "over" => Reached'[q] = 3
  <2> SUFFICES ASSUME NEW q \in Runs
               PROVE  /\ Reached'[q] \in 0 .. 3
                      /\ Reached'[q] = 0 <=> life'[q] = "none"
                      /\ life'[q] = "working" => Reached'[q] = 1
                      /\ life'[q] = "closing" => Reached'[q] = 2
                      /\ life'[q] = "over" => Reached'[q] = 3
    OBVIOUS
  <2>1. life'[q] \in {"none", "working", "closing", "over"}
    BY <1>3 DEF LifeTypes
  <2>2. CASE life'[q] = "none"
    BY <2>2 DEF Reached, Far
  <2>3. CASE life'[q] = "working"
    BY <2>3 DEF Reached, Far
  <2>4. CASE life'[q] = "closing"
    BY <2>4 DEF Reached, Far
  <2>5. CASE life'[q] = "over"
    BY <2>5 DEF Reached, Far
  <2> QED BY <2>1, <2>2, <2>3, <2>4, <2>5
<1>5. \A q \in Runs : life'[q] = life[q] => Reached'[q] = Reached[q]
  BY DEF Reached
<1>6. CASE QuietStep(r) /\ UNCHANGED <<wire, unsure>>
  <2>1. verdict' = verdict
    BY <1>6 DEF QuietStep, InsertRun, WriteStatus, CutShort, LeaveTask
  <2>2. \A q \in Runs : \/ life'[q] = life[q]
                        \/ life[q] = "working" /\ life'[q] \in {"closing", "over"}
                        \/ life[q] = "closing" /\ life'[q] = "over"
    BY <1>6 DEF QuietStep, InsertRun, WriteStatus, CutShort, LeaveTask, LifeTypes
  <2>3. ASSUME NEW q \in Runs
        PROVE  Reached[q] <= Reached'[q] /\ (life[q] = "none" <=> life'[q] = "none")
    <3>1. Reached[q] \in 0 .. 3 /\ (life[q] = "working" => Reached[q] = 1)
          /\ (life[q] = "closing" => Reached[q] = 2)
      BY ReachedFacts
    <3>2. CASE life'[q] = life[q]
      BY <1>5, <3>1, <3>2
    <3>3. CASE life[q] = "working" /\ life'[q] \in {"closing", "over"}
      BY <1>4, <3>1, <3>3
    <3>4. CASE life[q] = "closing" /\ life'[q] = "over"
      BY <1>4, <3>1, <3>4
    <3> QED BY <2>2, <3>2, <3>3, <3>4
  <2> QED BY <1>1, <1>2, <1>6, <2>1, <2>3
<1> USE EventFacts DEF EventKinds
<1>7. CASE CreateTask(r) /\ Send(r, "started")
  <2>1. /\ life[r] = "none" /\ life'[r] = "working" /\ verdict' = verdict
        /\ \A q \in Runs : q # r => life'[q] = life[q]
    BY <1>7 DEF CreateTask, LifeTypes
  <2>2. verdict[r] = "none"
    BY <2>1 DEF LifeInv
  <2> QED BY <1>1, <1>2, <1>4, <1>5, <1>7, <2>1, <2>2, ReachedFacts
<1>8. CASE PublishVerdict(r) /\ Send(r, "ended")
  <2>1. /\ life[r] = "working" /\ life'[r] = "closing" /\ verdict'[r] # "none"
        /\ \A q \in Runs : q # r => life'[q] = life[q] /\ verdict'[q] = verdict[q]
    BY <1>8 DEF PublishVerdict, LifeTypes, Terminal
  <2> QED BY <1>1, <1>2, <1>4, <1>5, <1>8, <2>1, ReachedFacts
<1>9. CASE PublishFinished(r) /\ Send(r, "finished")
  <2>1. /\ life[r] = "closing" /\ life'[r] = "over" /\ verdict' = verdict
        /\ \A q \in Runs : q # r => life'[q] = life[q]
    BY <1>9 DEF PublishFinished, LifeTypes
  <2> QED BY <1>1, <1>2, <1>4, <1>5, <1>9, <2>1, ReachedFacts
<1> QED BY <1>1, <1>6, <1>7, <1>8, <1>9

\* A quiet step leaves every row as right as it was.
LEMMA QuietList ==
    ASSUME LifeTypes, LifeInv, ListInv, LifeNext \/ UNCHANGED lifeVars,
           UNCHANGED <<fpc, rows, listed, crashed, wire, unsure, verdict>>,
           \A q \in Runs : Reached[q] <= Reached'[q] /\ (life[q] = "none" <=> life'[q] = "none")
    PROVE  ListInv'
<1> USE EventFacts
<1>1. wire \in Seq(Events)
  BY DEF ListInv
<1>2. LifeTypes'
  BY LifeKept
<1>3. \A q \in Runs : Reached[q] \in 0 .. 3 /\ Reached'[q] \in Nat
  <2>1. ASSUME NEW q \in Runs PROVE Reached'[q] \in Nat
    <3>1. life'[q] \in {"none", "working", "closing", "over"}
      BY <1>2 DEF LifeTypes
    <3> QED BY <3>1 DEF Reached, Far
  <2> QED BY <2>1, ReachedFacts
<1>4. InOrder'
  <2>1. ASSUME NEW i \in 1 .. Len(wire)
        PROVE  Rank(wire[i].kind) <= Reached'[wire[i].run]
    <3>1. wire[i].run \in Runs /\ Rank(wire[i].kind) \in Nat
      BY <1>1 DEF EventKinds
    <3>2. Rank(wire[i].kind) <= Reached[wire[i].run]
      BY DEF ListInv, InOrder
    <3>3. PICK q \in Runs : q = wire[i].run
      BY <3>1
    <3>4. Reached[q] <= Reached'[q] /\ Reached[q] \in Nat /\ Reached'[q] \in Nat
      BY <1>3
    <3>5. Rank(wire[i].kind) <= Reached'[q]
      BY <3>1, <3>2, <3>3, <3>4
    <3> QED BY <3>3, <3>5
  <2> QED BY <2>1 DEF ListInv, InOrder
<1>5. EndsAreStored'
  BY LifeSettles DEF ListInv, EndsAreStored
<1>6. \A q : \A k : Pending(q, k)' <=> Pending(q, k)
  BY DEF Pending
<1>7. \A q \in Runs : /\ RowFits(q) => RowFits(q)'
                      /\ Fits(q, listed[q]) => Fits(q, listed[q])'
  BY <1>6 DEF RowFits, Fits
<1> QED BY <1>4, <1>5, <1>7 DEF ListInv

\* A step that sends an event: it joins the wire, or nobody is told yet; the list that
\* is on its way may be wrong about the run.
LEMMA SendList ==
    ASSUME LifeTypes, LifeInv, ListInv, front = "tui", LifeNext,
           UNCHANGED <<fpc, rows, listed, crashed>>,
           NEW r \in Runs, NEW k \in EventKinds, Send(r, k),
           Reached'[r] = Rank(k), Reached[r] = Rank(k) - 1,
           verdict'[r] = verdict[r] \/ (k = "ended" /\ verdict'[r] # "none"),
           k = "ended" => verdict'[r] # "none",
           k = "started" => verdict'[r] = "none",
           \A q \in Runs : q # r => /\ Reached'[q] = Reached[q]
                                    /\ life'[q] = life[q] /\ verdict'[q] = verdict[q]
    PROVE  ListInv'
<1> USE EventFacts
<1>1. /\ fpc \in {"connect", "list", "answer", "done"}
      /\ wire \in Seq(Events) /\ rows \in [Runs -> Shows] /\ listed \in [Runs -> Shows]
      /\ unsure \subseteq Runs /\ InOrder
      /\ fpc # "done" => \A i \in 1 .. Len(wire) : wire[i].run \in unsure
      /\ fpc # "done" => \A q \in Runs \ unsure : rows[q] = "absent"
      /\ fpc = "connect" => wire = <<>>
      /\ fpc = "answer" => \A q \in Runs \ unsure : Fits(q, listed[q])
      /\ fpc = "done" => \A q \in Runs \ unsure : RowFits(q)
      /\ crashed => unsure # {}
  BY DEF ListInv
<1>2. Subscribed <=> fpc \in {"list", "answer", "done"}
  <2>1. wire = <<>> \/ wire[Len(wire)] # Eof
    <3>1. wire # <<>> => wire[Len(wire)] \in Events
      BY <1>1
    <3> QED BY <3>1
  <2> QED BY <1>1, <2>1 DEF Subscribed
<1>3. EndsAreStored'
  BY LifeSettles DEF ListInv, EndsAreStored
<1>4. LifeTypes' /\ Reached[r] \in 0 .. 3
  BY LifeKept, ReachedFacts
<1>5. CASE fpc = "connect"
  <2>1. wire' = wire /\ unsure' = unsure /\ wire = <<>> /\ Len(wire) = 0
    BY <1>1, <1>2, <1>5 DEF Send
  <2>2. InOrder'
    BY <2>1 DEF InOrder
  <2> QED BY <1>1, <1>3, <1>5, <2>1, <2>2 DEF ListInv
<1>6. CASE fpc # "connect"
  <2>1. PICK e \in Events : e = Event(r, k) /\ e.run = r /\ e.kind = k
    OBVIOUS
  <2>2. /\ wire' = Append(wire, e)
        /\ (fpc = "done" => unsure' = unsure)
        /\ (fpc # "done" => unsure' = unsure \cup {r})
    BY <1>1, <1>2, <1>6, <2>1 DEF Send
  <2>3. /\ wire' \in Seq(Events) /\ Len(wire') = Len(wire) + 1 /\ Len(wire) \in Nat
        /\ wire'[Len(wire) + 1] = e /\ \A i \in 1 .. Len(wire) : wire'[i] = wire[i]
        /\ \A i \in 1 .. Len(wire') : i \in 1 .. Len(wire) \/ i = Len(wire) + 1
    BY <1>1, <2>2
  <2>4. \A i \in 1 .. Len(wire) : wire[i].run \in Runs /\ Rank(wire[i].kind) \in Nat
    BY <1>1 DEF EventKinds
  <2>5. ASSUME NEW i \in 1 .. Len(wire), wire[i].run = r
        PROVE  Rank(wire[i].kind) < Rank(k)
    <3>1. Rank(wire[i].kind) <= Reached[r]
      BY <1>1, <2>5 DEF InOrder
    <3>2. Rank(k) \in Nat
      BY DEF EventKinds
    <3> QED BY <1>4, <2>4, <3>1, <3>2
  <2>6. InOrder'
    <3>1. ASSUME NEW i \in 1 .. Len(wire')
          PROVE  /\ Rank(wire'[i].kind) <= Reached'[wire'[i].run]
                 /\ wire'[i].kind = "ended" => verdict'[wire'[i].run] # "none"
      <4>1. CASE i = Len(wire) + 1
        <5>1. Rank(k) \in Nat
          BY DEF EventKinds
        <5> QED BY <2>1, <2>3, <4>1, <5>1
      <4>2. CASE i \in 1 .. Len(wire)
        <5>1. PICK q \in Runs : q = wire[i].run
          BY <2>4, <4>2
        <5>2. /\ wire'[i] = wire[i] /\ Rank(wire[i].kind) <= Reached[q]
              /\ wire[i].kind = "ended" => verdict[q] # "none"
          BY <1>1, <2>3, <4>2, <5>1 DEF InOrder
        <5>3. CASE q # r
          <6>1. Reached'[q] = Reached[q] /\ verdict'[q] = verdict[q]
            BY <5>3
          <6> QED BY <5>1, <5>2, <6>1
        <5>4. CASE q = r
          <6>1. Rank(wire[i].kind) < Rank(k)
            BY <2>5, <4>2, <5>1, <5>4
          <6>2. Rank(k) \in Nat /\ Rank(wire[i].kind) \in Nat
            BY <2>4, <4>2 DEF EventKinds
          <6>3. Rank(wire[i].kind) <= Reached'[r]
            BY <6>1, <6>2
          <6>4. wire[i].kind = "ended" => verdict'[r] # "none"
            BY <5>2, <5>4
          <6> QED BY <5>1, <5>2, <5>4, <6>3, <6>4
        <5> QED BY <5>3, <5>4
      <4> QED BY <2>3, <4>1, <4>2
    <3>2. ASSUME NEW i \in 1 .. Len(wire'), NEW j \in 1 .. Len(wire'), i < j, wire'[i].run = wire'[j].run
          PROVE  Rank(wire'[i].kind) < Rank(wire'[j].kind)
      <4>1. i \in 1 .. Len(wire) /\ wire'[i] = wire[i]
        BY <2>3, <3>2
      <4>2. CASE j = Len(wire) + 1
        BY <2>1, <2>3, <2>5, <3>2, <4>1, <4>2
      <4>3. CASE j \in 1 .. Len(wire)
        BY <1>1, <2>3, <3>2, <4>1, <4>3 DEF InOrder
      <4> QED BY <2>3, <4>2, <4>3
    <3> QED BY <3>1, <3>2 DEF InOrder
  <2>7. CASE fpc # "done"
    <3>1. unsure' = unsure \cup {r}
      BY <2>2, <2>7
    <3>2. ASSUME NEW i \in 1 .. Len(wire') PROVE wire'[i].run \in unsure'
      <4>1. CASE i = Len(wire) + 1
        BY <2>1, <2>3, <3>1, <4>1
      <4>2. CASE i \in 1 .. Len(wire)
        BY <1>1, <2>3, <2>7, <3>1, <4>2
      <4> QED BY <2>3, <4>1, <4>2
    <3>3. fpc = "answer" => \A q \in Runs \ unsure' : Fits(q, listed[q])'
      BY <1>1, <3>1 DEF Fits
    <3> QED BY <1>1, <1>3, <1>6, <2>3, <2>6, <2>7, <3>1, <3>2, <3>3 DEF ListInv
  <2>8. CASE fpc = "done"
    <3>1. unsure' = unsure
      BY <2>2, <2>8
    <3>2. ASSUME NEW q, NEW m PROVE Pending(q, m)' <=> Pending(q, m) \/ e = Event(q, m)
      <4>1. Pending(q, m)' => Pending(q, m) \/ e = Event(q, m)
        BY <2>3 DEF Pending
      <4>2. Pending(q, m) => Pending(q, m)'
        BY <2>3 DEF Pending
      <4>3. e = Event(q, m) => Pending(q, m)'
        <5>1. Len(wire) + 1 \in 1 .. Len(wire')
          BY <2>3
        <5> QED BY <2>3, <5>1 DEF Pending
      <4> QED BY <4>1, <4>2, <4>3
    <3>3. ASSUME NEW q \in Runs \ unsure
          PROVE  RowFits(q)'
      <4>1. RowFits(q) /\ rows' = rows
        BY <1>1, <2>8
      <4>2. CASE q # r
        <5>1. \A m : Pending(q, m)' <=> Pending(q, m)
          BY <2>1, <3>2, <4>2
        <5>2. life'[q] = life[q] /\ verdict'[q] = verdict[q]
          BY <4>2
        <5> QED BY <4>1, <5>1, <5>2 DEF RowFits, Fits
      <4>3. CASE q = r
        <5>1. \A m : Pending(r, m)' <=> Pending(r, m) \/ m = k
          <6>1. \A m : e = Event(r, m) <=> m = k
            BY <2>1
          <6> QED BY <3>2, <6>1
        <5>2. \A m \in EventKinds : Pending(r, m) => Rank(m) < Rank(k)
          BY <2>5 DEF Pending
        <5>3. /\ "started" \in EventKinds /\ "ended" \in EventKinds
              /\ k \in {"started", "ended", "finished"}
          BY DEF EventKinds
        <5>4. life[r] = "none" <=> k = "started"
          BY <1>4, <5>3, ReachedFacts
        <5>5. life'[r] # "none"
          <6>1. Reached'[r] # 0
            BY <5>3
          <6>2. life'[r] = "none" => Reached'[r] = 0
            BY DEF Reached, Far
          <6> QED BY <6>1, <6>2
        <5>6. CASE k = "started"
          <6>1. ~Pending(r, "started") /\ ~Pending(r, "ended")
            BY <5>2, <5>3, <5>6
          <6>2. rows[r] = "absent"
            BY <4>1, <4>3, <5>4, <5>6, <6>1 DEF RowFits, Fits
          <6> QED BY <4>1, <4>3, <5>1, <5>6, <6>2 DEF RowFits
        <5>7. CASE k = "ended"
          BY <4>1, <4>3, <5>1, <5>3, <5>4, <5>7 DEF RowFits, Fits
        <5>8. CASE k = "finished"
          BY <4>1, <4>3, <5>1, <5>3, <5>4, <5>5, <5>8 DEF RowFits, Fits
        <5> QED BY <5>3, <5>6, <5>7, <5>8
      <4> QED BY <4>2, <4>3
    <3> QED BY <1>1, <1>3, <2>3, <2>6, <2>8, <3>1, <3>3 DEF ListInv
  <2> QED BY <2>7, <2>8
<1> QED BY <1>5, <1>6

\* A run goes on.
LEMMA AdvanceList ==
    ASSUME LifeTypes, LifeInv, ListInv, front = "tui", NEW r \in Runs, Advance(r)
    PROVE  ListInv'
  BY AdvanceKinds, QuietList, SendList, Zenon

\* An event is read: the row it is about changes, or the program crashes over a run
\* that the list may have told it of before.
LEMMA ReadList ==
    ASSUME LifeTypes, LifeInv, ListInv, OnRunMsg
    PROVE  ListInv'
<1> USE EventFacts
<1>1. /\ fpc \in {"connect", "list", "answer", "done"}
      /\ wire \in Seq(Events) /\ rows \in [Runs -> Shows] /\ listed \in [Runs -> Shows]
      /\ unsure \subseteq Runs /\ InOrder /\ EndsAreStored
      /\ fpc # "done" => \A i \in 1 .. Len(wire) : wire[i].run \in unsure
      /\ fpc # "done" => \A q \in Runs \ unsure : rows[q] = "absent"
      /\ fpc = "connect" => wire = <<>>
      /\ fpc = "answer" => \A q \in Runs \ unsure : Fits(q, listed[q])
      /\ fpc = "done" => \A q \in Runs \ unsure : RowFits(q)
      /\ crashed => unsure # {}
  BY DEF ListInv
<1>2. wire # <<>> /\ UNCHANGED lifeVars
  BY Zenon DEF OnRunMsg
<1>3. PICK e \in Events : e = Head(wire)
  BY <1>1, <1>2
<1>4. PICK t \in Seq(Events) : t = Tail(wire)
  <2>1. Tail(wire) \in Seq(Events)
    BY <1>1, <1>2
  <2> QED BY <2>1, Zenon
<1>5. PICK r \in Runs, k \in EventKinds : e = Event(r, k) /\ e.run = r /\ e.kind = k
  OBVIOUS
<1>6. /\ ~crashed /\ wire' = t
      /\ crashed' = (k = "started" /\ rows[r] # "absent")
      /\ rows' = [rows EXCEPT ![r] =
                     IF k = "started" THEN "running"
                     ELSE IF k = "ended" /\ @ # "absent" THEN "ended" ELSE @]
      /\ UNCHANGED <<fpc, listed, unsure>>
  BY <1>3, <1>4, <1>5, Zenon DEF OnRunMsg
<1>7. UNCHANGED <<life, status, verdict, told>>
  BY <1>2 DEF lifeVars
<1>8. /\ Len(wire) \in Nat \ {0} /\ e = wire[1] /\ Len(t) = Len(wire) - 1 /\ t \in Seq(Events)
      /\ \A i \in 1 .. Len(t) : t[i] = wire[i + 1] /\ i + 1 \in 1 .. Len(wire) /\ 1 < i + 1
  BY <1>1, <1>2, <1>3, <1>4
<1>9. rows' \in [Runs -> Shows] /\ \A q \in Runs : q # r => rows'[q] = rows[q]
  <2>1. rows[r] \in Shows
    BY <1>1
  <2> QED BY <1>1, <1>6, <2>1 DEF Shows
<1>10. rows'[r] = IF k = "started" THEN "running"
                  ELSE IF k = "ended" /\ rows[r] # "absent" THEN "ended" ELSE rows[r]
  BY <1>1, <1>6
<1>11. /\ Rank(k) <= Reached[r] /\ Reached[r] \in 0 .. 3 /\ Rank(k) \in 1 .. 3
       /\ life[r] # "none"
       /\ k = "ended" => verdict[r] # "none"
  <2>1. 1 \in 1 .. Len(wire)
    BY <1>8
  <2>2. Rank(wire[1].kind) <= Reached[wire[1].run]
        /\ (wire[1].kind = "ended" => verdict[wire[1].run] # "none")
    BY <1>1, <2>1 DEF InOrder
  <2>3. Rank(k) \in 1 .. 3
    BY DEF EventKinds
  <2> QED BY <1>5, <1>8, <2>2, <2>3, ReachedFacts
<1>12. InOrder'
  <2>1. ASSUME NEW i \in 1 .. Len(t)
        PROVE  /\ Rank(t[i].kind) <= Reached[t[i].run]
               /\ t[i].kind = "ended" => verdict[t[i].run] # "none"
    <3>1. t[i] = wire[i + 1] /\ i + 1 \in 1 .. Len(wire)
      BY <1>8
    <3>2. /\ Rank(wire[i + 1].kind) <= Reached[wire[i + 1].run]
          /\ wire[i + 1].kind = "ended" => verdict[wire[i + 1].run] # "none"
      BY <1>1, <3>1 DEF InOrder
    <3> QED BY <3>1, <3>2
  <2>2. ASSUME NEW i \in 1 .. Len(t), NEW j \in 1 .. Len(t), i < j, t[i].run = t[j].run
        PROVE  Rank(t[i].kind) < Rank(t[j].kind)
    <3>1. t[i] = wire[i + 1] /\ t[j] = wire[j + 1] /\ i + 1 \in 1 .. Len(wire) /\ j + 1 \in 1 .. Len(wire) /\ i + 1 < j + 1
      BY <1>8, <2>2
    <3> QED BY <1>1, <2>2, <3>1 DEF InOrder
  <2>3. \A q : Reached'[q] = Reached[q]
    BY <1>7 DEF Reached
  <2> QED BY <1>6, <1>7, <2>1, <2>2, <2>3 DEF InOrder
<1>13. EndsAreStored'
  <2> SUFFICES ASSUME NEW q \in Runs, rows'[q] = "ended" \/ listed'[q] = "ended"
               PROVE  status[q] \in Terminal
    BY <1>7 DEF EndsAreStored
  <2>1. CASE rows[q] = "ended" \/ listed[q] = "ended"
    BY <1>1, <2>1 DEF EndsAreStored
  <2>2. CASE q = r /\ k = "ended"
    BY <1>11, <2>2 DEF LifeInv, LifeTypes, Terminal
  <2> QED BY <1>6, <1>9, <1>10, <2>1, <2>2
<1>14. /\ \A q : \A m : Pending(q, m)' => Pending(q, m)
       /\ \A q : \A m : Pending(q, m) /\ e # Event(q, m) => Pending(q, m)'
       /\ Pending(r, k)
       /\ \A m \in EventKinds : Pending(r, m)' => Rank(k) < Rank(m)
  <2>1. \A q : \A m : Pending(q, m)' <=> \E i \in 1 .. Len(t) : wire[i + 1] = Event(q, m)
    <3>1. \A q : \A m : Pending(q, m)' <=> \E i \in 1 .. Len(t) : t[i] = Event(q, m)
      BY <1>6, Zenon DEF Pending
    <3> QED BY <1>8, <3>1
  <2>2. \A i \in 1 .. Len(wire) : i = 1 \/ (i - 1 \in 1 .. Len(t) /\ (i - 1) + 1 = i)
    BY <1>8
  <2>3. 1 \in 1 .. Len(wire)
    BY <1>8
  <2>4. ASSUME NEW q, NEW m, Pending(q, m)' PROVE Pending(q, m)
    <3>1. PICK i \in 1 .. Len(t) : wire[i + 1] = Event(q, m)
      BY <2>1, <2>4
    <3>2. i + 1 \in 1 .. Len(wire)
      BY <1>8
    <3> QED BY <3>1, <3>2 DEF Pending
  <2>5. ASSUME NEW q, NEW m, Pending(q, m), e # Event(q, m) PROVE Pending(q, m)'
    <3>1. PICK i \in 1 .. Len(wire) : wire[i] = Event(q, m)
      BY <2>5 DEF Pending
    <3>2. i - 1 \in 1 .. Len(t) /\ (i - 1) + 1 = i
      BY <1>8, <2>2, <2>5, <3>1
    <3> QED BY <2>1, <3>1, <3>2
  <2>6. Pending(r, k)
    BY <1>5, <1>8, <2>3 DEF Pending
  <2>7. ASSUME NEW m \in EventKinds, Pending(r, m)'
        PROVE  Rank(k) < Rank(m)
    <3>1. PICK i \in 1 .. Len(t) : wire[i + 1] = Event(r, m)
      BY <2>1, <2>7
    <3>2. wire[i + 1].run = wire[1].run /\ wire[1].kind = k /\ wire[i + 1].kind = m
      BY <1>5, <1>8, <3>1
    <3> QED BY <1>1, <1>8, <2>3, <3>1, <3>2 DEF InOrder
  <2> QED BY <2>4, <2>5, <2>6, <2>7
<1>15. ASSUME fpc # "done"
       PROVE  /\ \A i \in 1 .. Len(t) : t[i].run \in unsure
              /\ r \in unsure
              /\ \A q \in Runs \ unsure : rows'[q] = "absent"
  <2>1. \A i \in 1 .. Len(wire) : wire[i].run \in unsure
    BY <1>1, <1>15
  <2>2. \A i \in 1 .. Len(t) : t[i].run \in unsure
    BY <1>8, <2>1
  <2>3. 1 \in 1 .. Len(wire)
    BY <1>8
  <2>4. r \in unsure
    BY <1>5, <1>8, <2>1, <2>3
  <2> QED BY <1>1, <1>9, <1>15, <2>2, <2>4
<1>16. fpc # "connect"
  BY <1>1, <1>2
<1>17. crashed' => unsure # {}
  <2> SUFFICES ASSUME k = "started", rows[r] # "absent", unsure = {} PROVE FALSE
    BY <1>6
  <2>1. fpc = "done"
    BY <1>15
  <2>2. RowFits(r)
    BY <1>1, <2>1
  <2> QED BY <1>14, <2>2 DEF RowFits
<1>18. ASSUME fpc = "done", NEW q \in Runs \ unsure
       PROVE  RowFits(q)'
  <2>1. RowFits(q) /\ rows[q] \in Shows
    BY <1>1, <1>18
  <2>2. CASE q # r
    <3>1. \A m : Pending(q, m)' <=> Pending(q, m)
      <4>1. \A m : e # Event(q, m)
        BY <1>5, <2>2
      <4> QED BY <1>14, <4>1
    <3>2. rows'[q] = rows[q]
      BY <1>9, <2>2
    <3> QED BY <1>7, <2>1, <3>1, <3>2 DEF RowFits, Fits
  <2>3. CASE q = r
    <3>1. ~Pending(r, k)' /\ \A m \in EventKinds : m # k => (Pending(r, m)' <=> Pending(r, m))
      <4>1. \A m : m # k => e # Event(r, m)
        BY <1>5
      <4> QED BY <1>5, <1>11, <1>14, <4>1
    <3>2. \A m \in EventKinds : Pending(r, m)' => Rank(k) < Rank(m)
      BY <1>14
    <3>3. "started" \in EventKinds /\ "ended" \in EventKinds /\ k \in {"started", "ended", "finished"}
      BY DEF EventKinds
    <3>4. Pending(r, k)
      BY <1>14
    <3>5. CASE k = "started"
      BY <1>7, <1>10, <1>11, <2>1, <2>3, <3>1, <3>3, <3>4, <3>5 DEF RowFits, Fits
    <3>6. CASE k = "ended"
      <4>1. ~Pending(r, "started")' /\ ~Pending(r, "started") /\ ~Pending(r, "ended")'
        BY <3>1, <3>2, <3>3, <3>6
      <4>2. rows'[r] = "ended"
        BY <1>10, <2>1, <2>3, <3>4, <3>6, <4>1 DEF RowFits
      <4> QED BY <1>7, <1>11, <2>3, <4>1, <4>2 DEF RowFits, Fits
    <3>7. CASE k = "finished"
      BY <1>7, <1>10, <2>1, <2>3, <3>1, <3>3, <3>7 DEF RowFits, Fits
    <3> QED BY <3>3, <3>5, <3>6, <3>7
  <2> QED BY <2>2, <2>3
<1>19. fpc' = "answer" => \A q \in Runs \ unsure' : Fits(q, listed[q])'
  BY <1>1, <1>6, <1>7 DEF Fits
<1> QED BY <1>1, <1>6, <1>8, <1>9, <1>12, <1>13, <1>15, <1>16, <1>17, <1>18, <1>19 DEF ListInv

\* The list is asked for, made and shown, or does not come.
LEMMA ShowList ==
    ASSUME LifeTypes, LifeInv, ListInv, front = "tui",
           Mount \/ ListRuns \/ ListFails \/ Refresh
    PROVE  ListInv'
<1>1. /\ fpc \in {"connect", "list", "answer", "done"}
      /\ wire \in Seq(Events) /\ rows \in [Runs -> Shows] /\ listed \in [Runs -> Shows]
      /\ unsure \subseteq Runs /\ InOrder /\ EndsAreStored
      /\ fpc # "done" => \A i \in 1 .. Len(wire) : wire[i].run \in unsure
      /\ fpc # "done" => \A q \in Runs \ unsure : rows[q] = "absent"
      /\ fpc = "connect" => wire = <<>>
      /\ fpc = "answer" => \A q \in Runs \ unsure : Fits(q, listed[q])
      /\ crashed => unsure # {}
  BY DEF ListInv
<1>2. UNCHANGED <<lifeVars, wire, crashed>>
  <2>1. CASE Mount
    BY <2>1, Zenon DEF Mount, tuiVars
  <2>2. CASE ListRuns
    BY <2>2, Zenon DEF ListRuns
  <2>3. CASE ListFails
    BY <2>3, Zenon DEF ListFails
  <2>4. CASE Refresh
    BY <2>4, Zenon DEF Refresh
  <2> QED BY <2>1, <2>2, <2>3, <2>4
<1>3. UNCHANGED <<life, status, verdict, told>>
  BY <1>2 DEF lifeVars
<1>4. InOrder'
  <2>1. Reached' = Reached
    BY <1>3 DEF Reached
  <2> QED BY <1>1, <1>2, <1>3, <2>1 DEF InOrder
<1>5. ASSUME fpc # "done", NEW q \in Runs \ unsure
      PROVE  \A k : ~Pending(q, k)'
  <2> SUFFICES ASSUME NEW k, NEW i \in 1 .. Len(wire), wire[i] = Event(q, k) PROVE FALSE
    BY <1>2 DEF Pending
  <2>1. wire[i].run = q
    BY EventFacts
  <2> QED BY <1>1, <1>5, <2>1
<1>6. CASE Mount
  <2>1. fpc = "connect" /\ fpc' = "list" /\ UNCHANGED <<rows, listed, unsure>>
    BY <1>6, Zenon DEF Mount, tuiVars
  <2>2. EndsAreStored'
    BY <1>1, <1>3, <2>1 DEF EndsAreStored
  <2> QED BY <1>1, <1>2, <1>4, <2>1, <2>2 DEF ListInv
<1>7. CASE ListRuns
  <2>1. fpc = "list" /\ fpc' = "answer" /\ rows' = rows
    BY <1>7, Zenon DEF ListRuns
  <2>2. PICK S \in SUBSET StoredRuns :
          /\ listed' = [q \in Runs |-> IF q \in S THEN Shown(status[q]) ELSE "absent"]
          /\ unsure' = unsure \cup (StoredRuns \ S) \cup {q \in S : life[q] = "none"}
    BY <1>7, Zenon DEF ListRuns
  <2>3. ASSUME NEW q \in S
        PROVE  /\ q \in Runs
               /\ Shown(status[q]) \in {"running", "ended"}
               /\ Shown(status[q]) = "ended" <=> status[q] \in Terminal
    BY DEF StoredRuns, Shown, LifeTypes, Terminal
  <2>4. listed' \in [Runs -> Shows] /\ unsure' \subseteq Runs
    BY <1>1, <2>2, <2>3 DEF Shows, StoredRuns
  <2>5. EndsAreStored'
    BY <1>1, <1>3, <2>1, <2>2, <2>3 DEF EndsAreStored
  <2>6. ASSUME NEW q \in Runs \ unsure'
        PROVE  Fits(q, listed[q])'
    <3>1. CASE q \in S
      <4>1. life[q] # "none" /\ listed'[q] = Shown(status[q])
        BY <2>2, <2>6, <3>1
      <4>2. verdict[q] # "none" => status[q] \in Terminal
        BY DEF LifeInv, LifeTypes, Terminal
      <4> QED BY <1>3, <2>3, <3>1, <4>1, <4>2 DEF Fits
    <3>2. CASE q \notin S
      <4>1. status[q] = "absent" /\ listed'[q] = "absent"
        BY <2>2, <2>6, <3>2 DEF StoredRuns
      <4>2. life[q] = "none" /\ verdict[q] = "none"
        BY <4>1 DEF LifeInv
      <4> QED BY <1>3, <4>1, <4>2 DEF Fits
    <3> QED BY <3>1, <3>2
  <2>7. unsure \subseteq unsure'
    BY <2>2
  <2> QED BY <1>1, <1>2, <1>4, <2>1, <2>4, <2>5, <2>6, <2>7 DEF ListInv
<1>8. CASE ListFails
  <2>1. /\ fpc # "done" /\ fpc' = "done" /\ UNCHANGED <<rows, listed>>
        /\ unsure' = unsure \cup {q \in Runs : life[q] # "none"}
    BY <1>8, Zenon DEF ListFails
  <2>2. EndsAreStored'
    BY <1>1, <1>3, <2>1 DEF EndsAreStored
  <2>3. ASSUME NEW q \in Runs \ unsure'
        PROVE  RowFits(q)'
    <3>1. q \notin unsure /\ life[q] = "none"
      BY <2>1, <2>3
    <3>2. rows[q] = "absent" /\ verdict[q] = "none"
      BY <1>1, <2>1, <3>1 DEF LifeInv
    <3> QED BY <1>3, <1>5, <2>1, <3>1, <3>2 DEF RowFits, Fits
  <2> QED BY <1>1, <1>2, <1>4, <2>1, <2>2, <2>3 DEF ListInv
<1>9. CASE Refresh
  <2>1. fpc = "answer" /\ fpc' = "done" /\ rows' = listed /\ UNCHANGED <<listed, unsure>>
    BY <1>9, Zenon DEF Refresh
  <2>2. EndsAreStored'
    BY <1>1, <1>3, <2>1 DEF EndsAreStored
  <2>3. ASSUME NEW q \in Runs \ unsure
        PROVE  RowFits(q)'
    <3>1. \A k : ~Pending(q, k)'
      BY <1>5, <2>1
    <3>2. Fits(q, listed[q])
      BY <1>1, <2>1
    <3> QED BY <1>3, <2>1, <3>1, <3>2 DEF RowFits, Fits
  <2> QED BY <1>1, <1>2, <1>4, <2>1, <2>2, <2>3 DEF ListInv
<1> QED BY <1>6, <1>7, <1>8, <1>9

\* What the other programs do does not concern the list.
LEMMA OtherPrograms ==
    ASSUME FrontInv, TailStarts \/ TailReads \/ Outage \/ Restart \/ Bar \/ UNCHANGED fVars
    PROVE  FrontInv'
<1>1. front' = front /\ UNCHANGED <<rows, listed, crashed, unsure>>
  <2>1. CASE TailStarts
    BY <2>1, Zenon DEF TailStarts, tuiVars
  <2>2. CASE TailReads
    BY <2>2, Zenon DEF TailReads, tuiVars
  <2>3. CASE Outage
    BY <2>3, Zenon DEF Outage, tuiVars
  <2>4. CASE Restart
    BY <2>4, Zenon DEF Restart, tuiVars
  <2>5. CASE Bar
    BY <2>5, Zenon DEF Bar, BarConnects, BarReads, BarLosesDaemon, BarWakes, tuiVars
  <2>6. CASE UNCHANGED fVars
    BY <2>6, Zenon DEF fVars, frontVars, tuiVars
  <2> QED BY <2>1, <2>2, <2>3, <2>4, <2>5, <2>6
<1>2. LifeNext \/ UNCHANGED lifeVars
  <2>1. CASE TailStarts \/ TailReads \/ Restart
    BY <2>1, Zenon DEF TailStarts, TailReads, Restart
  <2>2. CASE Outage
    BY <2>2, Zenon DEF Outage, LifeNext
  <2>3. CASE Bar
    BY <2>3, Zenon DEF Bar, BarConnects, BarReads, BarLosesDaemon, BarWakes
  <2>4. CASE UNCHANGED fVars
    BY <2>4, Zenon DEF fVars
  <2> QED BY <2>1, <2>2, <2>3, <2>4
<1>3. LifeTypes' /\ LifeInv'
  BY <1>2, LifeKept DEF FrontInv
<1>4. front = "tui" /\ fpc \in {"connect", "list", "answer", "done"}
        => UNCHANGED <<fpc, wire, lifeVars>>
  <2> SUFFICES ASSUME front = "tui", fpc \in {"connect", "list", "answer", "done"}
               PROVE  UNCHANGED <<fpc, wire, lifeVars>>
    OBVIOUS
  <2>1. ~(TailStarts \/ TailReads \/ Outage)
    BY DEF TailStarts, TailReads, Outage
  <2>2. ~Bar
    BY DEF Bar, BarConnects, BarReads, BarLosesDaemon, BarWakes
  <2>3. CASE Restart
    BY <2>3, Zenon DEF Restart
  <2>4. CASE UNCHANGED fVars
    BY <2>4, Zenon DEF fVars, frontVars
  <2> QED BY <2>1, <2>2, <2>3, <2>4
<1>5. ASSUME ListInv, UNCHANGED <<fpc, wire, lifeVars>>
      PROVE  ListInv'
  <2>1. UNCHANGED <<life, status, verdict, told>>
    BY <1>5 DEF lifeVars
  <2>2. Reached' = Reached
    BY <2>1 DEF Reached
  <2>3. \A r : \A k : Pending(r, k)' <=> Pending(r, k)
    BY <1>5 DEF Pending
  <2>4. \A r, x : Fits(r, x)' <=> Fits(r, x)
    BY <2>1 DEF Fits
  <2>5. \A r : RowFits(r)' <=> RowFits(r)
    BY <1>1, <2>1, <2>3 DEF RowFits, Fits
  <2>6. InOrder' <=> InOrder
    BY <1>5, <2>1, <2>2 DEF InOrder
  <2>7. EndsAreStored' <=> EndsAreStored
    BY <1>1, <2>1 DEF EndsAreStored
  <2>8. \A r : Fits(r, listed[r])' <=> Fits(r, listed[r])
    BY <1>1, <2>1 DEF Fits
  <2> QED BY <1>1, <1>5, <2>5, <2>6, <2>7, <2>8 DEF ListInv
<1>6. front = "tui" => ListInv'
  BY <1>4, <1>5 DEF FrontInv, ListInv
<1> QED BY <1>1, <1>3, <1>6 DEF FrontInv

\* Every step keeps the invariant.
LEMMA FrontNext == FrontInv /\ [fNext]_fVars => FrontInv'
<1> SUFFICES ASSUME FrontInv, [fNext]_fVars PROVE FrontInv'
  OBVIOUS
<1>1. ASSUME NEW r \in Runs, Advance(r) PROVE FrontInv'
  <2>1. UNCHANGED <<front, crashed>> /\ LifeNext
    BY <1>1, AdvanceKinds DEF FrontInv
  <2>2. front = "tui" => ListInv'
    BY <1>1, AdvanceList DEF FrontInv
  <2>3. LifeTypes' /\ LifeInv'
    BY <2>1, LifeKept DEF FrontInv
  <2> QED BY <2>1, <2>2, <2>3 DEF FrontInv
<1>2. CASE Mount \/ ListRuns \/ ListFails \/ Refresh
  <2>1. UNCHANGED <<front, crashed, lifeVars>>
    <3>1. CASE Mount
      BY <3>1, Zenon DEF Mount, tuiVars
    <3>2. CASE ListRuns
      BY <3>2, Zenon DEF ListRuns
    <3>3. CASE ListFails
      BY <3>3, Zenon DEF ListFails
    <3>4. CASE Refresh
      BY <3>4, Zenon DEF Refresh
    <3> QED BY <1>2, <3>1, <3>2, <3>3, <3>4
  <2>2. front = "tui" => ListInv'
    BY <1>2, ShowList DEF FrontInv
  <2>3. LifeTypes' /\ LifeInv'
    BY <2>1, LifeKept DEF FrontInv
  <2> QED BY <2>1, <2>2, <2>3 DEF FrontInv
<1>3. CASE OnRunMsg
  <2>1. front = "tui" /\ UNCHANGED <<front, lifeVars>>
        /\ crashed' = (Head(wire).kind = "started" /\ rows[Head(wire).run] # "absent")
    BY <1>3, Zenon DEF OnRunMsg
  <2>2. ListInv'
    BY <1>3, <2>1, ReadList DEF FrontInv
  <2>3. crashed' \in BOOLEAN
    BY <2>1, Zenon
  <2>4. LifeTypes' /\ LifeInv'
    BY <2>1, LifeKept DEF FrontInv
  <2> QED BY <2>1, <2>2, <2>3, <2>4 DEF FrontInv
<1>4. CASE TailStarts \/ TailReads \/ Outage \/ Restart \/ Bar \/ UNCHANGED fVars
  BY <1>4, OtherPrograms
<1> QED BY <1>1, <1>2, <1>3, <1>4, Zenon DEF fNext

\* For any runs, any limit of the list and any order of events and answers, and
\* whatever of a run's end is stored or published: a run list that has read what was
\* published shows the runs that have begun and, of those, the verdicts; it shows an
\* end only where one is stored.  It is wrong, or crashes, only over a run that the
\* first list may have had wrong.
THEOREM RowsAreRightCorrect == fSpec => []RowsAreRight
<1>1. FrontInv => RowsAreRight
  <2> SUFFICES ASSUME FrontInv PROVE RowsAreRight
    OBVIOUS
  <2>1. crashed => unsure # {}
    BY DEF FrontInv, ListInv
  <2>2. \A r \in Runs : front = "tui" /\ rows[r] = "ended" => status[r] \in Terminal
    BY DEF FrontInv, ListInv, EndsAreStored
  <2>3. ASSUME front = "tui", fpc = "done", wire = <<>>, NEW r \in Runs \ unsure
        PROVE  /\ life[r] = "none" => rows[r] = "absent"
               /\ life[r] # "none" => rows[r] # "absent"
               /\ life[r] # "none" /\ status[r] = "running" => rows[r] = "running"
               /\ verdict[r] # "none" => rows[r] = "ended"
    <3>1. RowFits(r)
      BY <2>3 DEF FrontInv, ListInv
    <3>2. \A k : ~Pending(r, k)
      BY <2>3 DEF Pending
    <3>3. Fits(r, rows[r])
      BY <3>1, <3>2 DEF RowFits
    <3>4. status[r] = "running" => rows[r] # "ended"
      BY <2>2, <2>3 DEF Terminal
    <3> QED BY <3>3, <3>4 DEF Fits
  <2> QED BY <2>1, <2>2, <2>3 DEF RowsAreRight
<1> QED BY <1>1, FrontInit, FrontNext, PTL DEF fSpec

(***************************************************************************)
(* The voice sidecar, for any number of pending coroutines.                     *)
(***************************************************************************)

\* The capture thread is past the record branch of its block.
Recorded == {"silent", "timeout?", "handover", "handover_silent"}

\* A submission can still come of the recording.
Armed ==
    \/ pstate = "RECORDING"
    \/ capture = "record"
    \/ capture \in Recorded /\ frames > 0

\* The recordings that were handed over and wait for the event loop.
Submits == {i \in 1 .. Len(ready) : ready[i] = "submit"}

\* Nothing has been recorded before the first trigger.
Untouched ==
    /\ frames = 0 /\ waking = "no"
    /\ pstate \in {"LISTENING", "WAKING"}
    /\ capture \in {"read", "listen", "wake", "dead"}

\* The one block that may begin between the assignments of the wake word.
RacedBlock ==
    /\ ~raced => frames = 0
    /\ capture = "record" => frames = 0 /\ raced
    /\ capture \in {"timeout?", "handover"} => frames = 1 /\ raced
    /\ capture \notin {"silent", "handover_silent"}

\* A trigger is a client at work, a recording, a coroutine that waits, or a request.
OneTask ==
    /\ triggers = 0 => Untouched
    /\ waking = "frames" => RacedBlock
    /\ capture \in {"handover", "handover_silent"} => pstate # "RECORDING"
    /\ \A i, j \in Submits : i = j
    /\ Submits # {} => ~Armed /\ triggers = 1 /\ runTasks = 0 /\ ptt = 0
    /\ Armed => triggers = 1 /\ runTasks = 0 /\ ptt = 0
    /\ runTasks + ptt <= triggers

\* Up to the second trigger; from then on tasks may be too many.
VoiceInv ==
    /\ triggers \in Nat /\ runTasks \in Nat /\ ptt \in Nat /\ frames \in Nat
    /\ raced \in BOOLEAN
    /\ ready \in Seq({"check", "submit"})
    /\ triggers <= 1 => OneTask

\* The queue does not change.
LEMMA SubmitsSame == ready' = ready => Submits' = Submits
BY DEF Submits

\* A check of the wake word is handed over.
LEMMA SubmitsCheck ==
    ASSUME ready \in Seq({"check", "submit"}), ready' = Append(ready, "check")
    PROVE  Submits' = Submits /\ ready' \in Seq({"check", "submit"})
<1>1. Len(ready') = Len(ready) + 1 /\ Len(ready) \in Nat /\ ready' \in Seq({"check", "submit"})
  OBVIOUS
<1>2. ready'[Len(ready) + 1] = "check" /\ \A i \in 1 .. Len(ready) : ready'[i] = ready[i]
  OBVIOUS
<1>3. \A i : i \in Submits' <=> i \in Submits
  BY <1>1, <1>2 DEF Submits
<1> QED BY <1>1, <1>3, Zenon

\* A recording is handed over while none waits.
LEMMA SubmitsMore ==
    ASSUME ready \in Seq({"check", "submit"}), ready' = Append(ready, "submit"), Submits = {}
    PROVE  Submits' = {Len(ready) + 1} /\ ready' \in Seq({"check", "submit"})
<1>1. Len(ready') = Len(ready) + 1 /\ Len(ready) \in Nat /\ ready' \in Seq({"check", "submit"})
  OBVIOUS
<1>2. ready'[Len(ready) + 1] = "submit" /\ \A i \in 1 .. Len(ready) : ready'[i] = ready[i]
  OBVIOUS
<1>3. \A i : i \in Submits' <=> i = Len(ready) + 1
  BY <1>1, <1>2 DEF Submits
<1> QED BY <1>1, <1>3

\* A coroutine starts.
LEMMA SubmitsFewer ==
    ASSUME ready \in Seq({"check", "submit"}), ready # <<>>, ready' = Tail(ready)
    PROVE  /\ ready' \in Seq({"check", "submit"})
           /\ \A i \in Submits' : i \in Nat \ {0} /\ i + 1 \in Submits
           /\ Head(ready) = "submit" => 1 \in Submits
<1>1. /\ Len(ready) \in Nat \ {0} /\ Len(ready') = Len(ready) - 1 /\ Head(ready) = ready[1]
      /\ ready' \in Seq({"check", "submit"})
  OBVIOUS
<1>2. \A i \in 1 .. Len(ready) - 1 : ready'[i] = ready[i + 1]
  BY <1>1
<1>3. \A i \in Submits' : i \in 1 .. Len(ready) - 1 /\ ready'[i] = "submit"
  BY <1>1 DEF Submits
<1>4. \A i \in 1 .. Len(ready) - 1 : i + 1 \in 1 .. Len(ready) /\ i \in Nat \ {0}
  BY <1>1
<1>5. Head(ready) = "submit" => 1 \in Submits
  BY <1>1 DEF Submits
<1> QED BY <1>1, <1>2, <1>3, <1>4, <1>5 DEF Submits

\* The sidecar starts with nothing heard.
LEMMA VoiceInit == vInit => VoiceInv
<1> SUFFICES ASSUME vInit PROVE VoiceInv
  OBVIOUS
<1>1. /\ pstate = "LISTENING" /\ capture = "read" /\ frames = 0 /\ ready = <<>> /\ waking = "no"
      /\ raced = FALSE /\ ptt = 0 /\ triggers = 0 /\ runTasks = 0
  BY Zenon DEF vInit
<1>2. ready \in Seq({"check", "submit"}) /\ Submits = {}
  BY <1>1 DEF Submits
<1>3. OneTask
  BY <1>1, <1>2 DEF OneTask, Untouched, Armed, Recorded
<1> QED BY <1>1, <1>2, <1>3 DEF VoiceInv

\* A step that leaves the queue and the counters alone.
LEMMA VoiceQuiet ==
    ASSUME VoiceInv, ready' = ready, UNCHANGED <<triggers, runTasks, ptt>>,
           frames' \in Nat, raced' \in BOOLEAN,
           triggers = 1 /\ Armed' => Armed,
           triggers = 0 /\ Untouched => Untouched',
           triggers = 1 /\ waking' = "frames" => RacedBlock',
           capture' \in {"handover", "handover_silent"} => pstate' # "RECORDING"
    PROVE  VoiceInv'
<1>1. Submits' = Submits
  BY SubmitsSame
<1>2. ASSUME triggers' <= 1
      PROVE  OneTask'
  <2>1. OneTask /\ triggers \in {0, 1}
    BY <1>2 DEF VoiceInv
  <2>2. triggers = 0 => ~Armed' /\ waking' # "frames"
    <3>1. triggers = 0 => Untouched'
      BY <2>1 DEF OneTask
    <3> QED BY <3>1 DEF Untouched, Armed, Recorded
  <2> QED BY <1>1, <2>1, <2>2 DEF OneTask
<1> QED BY <1>2 DEF VoiceInv

\* The steps of the capture thread within a block.
LEMMA VoiceBlock ==
    ASSUME VoiceInv,
           Block \/ ListenBlock \/ RecordBlock \/ SilenceTriggers \/ TimeTriggers \/ CaptureFails \/ TimePasses
    PROVE  VoiceInv'
<1>1. frames \in Nat /\ raced \in BOOLEAN /\ (triggers <= 1 => OneTask)
  BY DEF VoiceInv
<1>2. Enough \in Nat /\ Enough > 1
  BY EnoughAssumption
<1>3. /\ triggers = 1 /\ waking = "frames" => RacedBlock
      /\ triggers \in {0, 1} /\ capture \in {"handover", "handover_silent"} => pstate # "RECORDING"
      /\ triggers = 0 => Untouched
  BY <1>1 DEF OneTask
<1>4. CASE Block
  <2>1. /\ capture = "read" /\ (waking = "no" \/ ~raced)
        /\ raced' = (waking # "no")
        /\ capture' = CASE pstate = "LISTENING" -> "listen"
                        [] pstate = "WAKING"    -> "wake"
                        [] pstate = "RECORDING" -> "record"
                        [] OTHER                -> "read"
        /\ UNCHANGED <<pstate, frames, ready, waking, triggers, runTasks, ptt>>
    BY <1>4, Zenon DEF Block, countVars
  <2>2. /\ pstate = "LISTENING" => capture' = "listen"
        /\ pstate = "WAKING" => capture' = "wake"
        /\ pstate = "RECORDING" => capture' = "record"
        /\ pstate \notin {"LISTENING", "WAKING", "RECORDING"} => capture' = "read"
    BY <2>1
  <2>3. raced' \in BOOLEAN /\ (waking = "frames" => raced' /\ ~raced)
    BY <2>1
  <2>4. triggers = 1 /\ Armed' => Armed
    BY <2>1, <2>2 DEF Armed, Recorded
  <2>5. triggers = 0 /\ Untouched => Untouched'
    BY <2>1, <2>2 DEF Untouched
  <2>6. triggers = 1 /\ waking' = "frames" => RacedBlock'
    BY <1>3, <2>1, <2>2, <2>3 DEF RacedBlock
  <2>7. capture' \notin {"handover", "handover_silent"}
    BY <2>2
  <2> QED BY <1>1, <2>1, <2>3, <2>4, <2>5, <2>6, <2>7, VoiceQuiet
<1>5. CASE ListenBlock
  <2>1. /\ capture = "listen" /\ capture' = "read" /\ pstate' \in {"WAKING", pstate}
        /\ UNCHANGED <<frames, ready, waking, raced, triggers, runTasks, ptt>>
    BY <1>5, SMT DEF ListenBlock, countVars
  <2>2. triggers = 1 /\ Armed' => Armed
    BY <2>1 DEF Armed, Recorded
  <2>3. triggers = 0 /\ Untouched => Untouched'
    BY <2>1 DEF Untouched
  <2>4. triggers = 1 /\ waking' = "frames" => RacedBlock'
    BY <1>3, <2>1 DEF RacedBlock
  <2> QED BY <1>1, <2>1, <2>2, <2>3, <2>4, VoiceQuiet
<1>6. CASE RecordBlock
  <2>1. /\ capture = "record" /\ frames' = MoreFrames
        /\ capture' \in {"timeout?"} \cup (IF frames' = Enough THEN {"silent"} ELSE {})
        /\ UNCHANGED <<pstate, ready, waking, raced, triggers, runTasks, ptt>>
    BY <1>6, Zenon DEF RecordBlock, countVars
  <2>2. frames' \in Nat /\ (frames = 0 => frames' = 1)
    BY <1>1, <1>2, <2>1 DEF MoreFrames
  <2>3. capture' \in {"timeout?", "silent"} /\ (frames = 0 => capture' = "timeout?")
    BY <1>2, <2>1, <2>2
  <2>4. triggers = 1 /\ Armed' => Armed
    BY <2>1 DEF Armed
  <2>5. triggers = 0 /\ Untouched => Untouched'
    BY <2>1 DEF Untouched
  <2>6. triggers = 1 /\ waking' = "frames" => RacedBlock'
    BY <1>3, <2>1, <2>2, <2>3 DEF RacedBlock
  <2> QED BY <1>1, <2>1, <2>2, <2>3, <2>4, <2>5, <2>6, VoiceQuiet
<1>7. CASE SilenceTriggers
  <2>1. /\ capture = "silent" /\ pstate' = "TRANSCRIBING" /\ capture' = "handover_silent"
        /\ UNCHANGED <<frames, ready, waking, raced, triggers, runTasks, ptt>>
    BY <1>7, Zenon DEF SilenceTriggers, Trigger, countVars
  <2>2. triggers = 1 /\ Armed' => Armed
    BY <2>1 DEF Armed, Recorded
  <2>3. triggers = 0 /\ Untouched => Untouched'
    BY <2>1 DEF Untouched
  <2>4. triggers = 1 /\ waking' = "frames" => RacedBlock'
    BY <1>3, <2>1 DEF RacedBlock
  <2> QED BY <1>1, <2>1, <2>2, <2>3, <2>4, VoiceQuiet
<1>8. CASE TimeTriggers
  <2>1. /\ capture = "timeout?"
        /\ \/ pstate' = "TRANSCRIBING" /\ capture' = "handover"
           \/ pstate' = pstate /\ capture' = "read"
        /\ UNCHANGED <<frames, ready, waking, raced, triggers, runTasks, ptt>>
    BY <1>8, Zenon DEF TimeTriggers, Trigger, countVars
  <2>2. triggers = 1 /\ Armed' => Armed
    BY <2>1 DEF Armed, Recorded
  <2>3. triggers = 0 /\ Untouched => Untouched'
    BY <2>1 DEF Untouched
  <2>4. triggers = 1 /\ waking' = "frames" => RacedBlock'
    BY <1>3, <2>1 DEF RacedBlock
  <2> QED BY <1>1, <2>1, <2>2, <2>3, <2>4, VoiceQuiet
<1>9. CASE CaptureFails
  <2>1. /\ capture = "read" /\ capture' = "dead"
        /\ UNCHANGED <<pstate, frames, ready, waking, raced, triggers, runTasks, ptt>>
    BY <1>9, Zenon DEF CaptureFails, countVars
  <2>2. triggers = 1 /\ Armed' => Armed
    BY <2>1 DEF Armed, Recorded
  <2>3. triggers = 0 /\ Untouched => Untouched'
    BY <2>1 DEF Untouched
  <2>4. triggers = 1 /\ waking' = "frames" => RacedBlock'
    BY <1>3, <2>1 DEF RacedBlock
  <2> QED BY <1>1, <2>1, <2>2, <2>3, <2>4, VoiceQuiet
<1>10. CASE TimePasses
  <2>1. UNCHANGED <<pstate, capture, frames, ready, waking, raced, triggers, runTasks, ptt>>
    BY <1>10, Zenon DEF TimePasses, thread, countVars
  <2>2. VoiceInv'
    BY <2>1, SubmitsSame DEF VoiceInv, OneTask, Untouched, RacedBlock, Armed
  <2> QED BY <2>2
<1> QED BY <1>4, <1>5, <1>6, <1>7, <1>8, <1>9, <1>10

\* The two steps of the capture thread that hand something to the event loop.
LEMMA VoiceHands == ASSUME VoiceInv, WakeBlock \/ HandOver PROVE VoiceInv'
<1>1. /\ frames \in Nat /\ raced \in BOOLEAN /\ ready \in Seq({"check", "submit"})
      /\ triggers \in Nat /\ runTasks \in Nat /\ ptt \in Nat /\ (triggers <= 1 => OneTask)
  BY DEF VoiceInv
<1>2. CASE WakeBlock
  <2>1. /\ capture = "wake" /\ capture' = "read"
        /\ \/ pstate' = "LISTENING" /\ ready' = Append(ready, "check")
           \/ UNCHANGED <<pstate, ready>>
        /\ UNCHANGED <<frames, waking, raced, triggers, runTasks, ptt>>
    BY <1>2, Zenon DEF WakeBlock, countVars
  <2>2. Submits' = Submits /\ ready' \in Seq({"check", "submit"})
    BY <1>1, <2>1, SubmitsSame, SubmitsCheck
  <2>3. ASSUME triggers' <= 1
        PROVE  OneTask'
    <3>1. OneTask
      BY <1>1, <2>1, <2>3
    <3>2. Armed' => Armed
      BY <2>1 DEF Armed, Recorded
    <3> QED BY <2>1, <2>2, <3>1, <3>2 DEF OneTask, Untouched, RacedBlock
  <2> QED BY <1>1, <2>1, <2>2, <2>3 DEF VoiceInv
<1>3. CASE HandOver
  <2>1. /\ capture \in {"handover", "handover_silent"}
        /\ UNCHANGED <<pstate, waking, raced, triggers, runTasks, ptt>>
        /\ IF frames = 0 THEN capture' = "dead" /\ UNCHANGED <<frames, ready>>
           ELSE /\ frames' = 0
                /\ ready' = Append(ready, "submit")
                /\ capture' = IF capture = "handover_silent" THEN "timeout?" ELSE "read"
    BY <1>3, Zenon DEF HandOver, countVars
  <2>2. CASE frames = 0
    <3>1. capture' = "dead" /\ frames' = frames /\ ready' = ready /\ Submits' = Submits
      BY <2>1, <2>2, SubmitsSame
    <3>2. ASSUME triggers' <= 1
          PROVE  OneTask'
      <4>1. OneTask
        BY <1>1, <2>1, <3>2
      <4>2. Armed' => Armed
        BY <2>1, <3>1 DEF Armed, Recorded
      <4> QED BY <2>1, <3>1, <4>1, <4>2 DEF OneTask, Untouched, RacedBlock
    <3> QED BY <1>1, <2>1, <3>1, <3>2 DEF VoiceInv
  <2>3. CASE frames # 0
    <3>1. /\ frames' = 0 /\ ready' = Append(ready, "submit") /\ ready' \in Seq({"check", "submit"})
          /\ capture' \in {"timeout?", "read"}
          /\ capture = "handover" => capture' = "read"
      BY <1>1, <2>1, <2>3
    <3>2. ASSUME triggers' <= 1
          PROVE  OneTask'
      <4>1. OneTask
        BY <1>1, <2>1, <3>2
      <4>2. Armed
        BY <1>1, <2>1, <2>3 DEF Armed, Recorded
      <4>3. Submits = {} /\ triggers = 1 /\ runTasks = 0 /\ ptt = 0 /\ pstate # "RECORDING"
        BY <2>1, <4>1, <4>2 DEF OneTask
      <4>4. Submits' = {Len(ready) + 1}
        BY <1>1, <3>1, <4>3, SubmitsMore
      <4>5. ~Armed'
        BY <2>1, <3>1, <4>3 DEF Armed, Recorded
      <4>6. waking = "frames" => capture = "handover" /\ raced
        BY <2>1, <4>1 DEF OneTask, RacedBlock
      <4>7. waking' = "frames" => RacedBlock'
        BY <2>1, <3>1, <4>6 DEF RacedBlock
      <4> QED BY <2>1, <3>1, <4>3, <4>4, <4>5, <4>7 DEF OneTask
    <3> QED BY <1>1, <2>1, <3>1, <3>2 DEF VoiceInv
  <2> QED BY <2>2, <2>3
<1> QED BY <1>2, <1>3

\* The coroutines, and the push-to-talk clients.
LEMMA VoiceLoop ==
    ASSUME VoiceInv, EventLoop \/ Submitted \/ PttRequest \/ PttEnds
    PROVE  VoiceInv'
<1>1. /\ frames \in Nat /\ raced \in BOOLEAN /\ ready \in Seq({"check", "submit"})
      /\ triggers \in Nat /\ runTasks \in Nat /\ ptt \in Nat /\ (triggers <= 1 => OneTask)
  BY DEF VoiceInv
<1>2. CASE NotWoken
  <2>1. /\ ready # <<>> /\ ready' = Tail(ready)
        /\ UNCHANGED <<pstate, capture, frames, waking, raced, triggers, runTasks, ptt>>
    BY <1>2, Zenon DEF NotWoken, Starts, countVars
  <2>2. ready' \in Seq({"check", "submit"}) /\ \A i \in Submits' : i \in Nat \ {0} /\ i + 1 \in Submits
    BY <1>1, <2>1, SubmitsFewer
  <2>3. ASSUME triggers' <= 1
        PROVE  OneTask'
    <3>1. OneTask
      BY <1>1, <2>1, <2>3
    <3>2. Armed' <=> Armed
      BY <2>1 DEF Armed
    <3>3. \A i, j \in Submits' : i = j
      BY <2>2, <3>1 DEF OneTask
    <3>4. Submits' # {} => Submits # {}
      BY <2>2
    <3> QED BY <2>1, <3>1, <3>2, <3>3, <3>4 DEF OneTask, Untouched, RacedBlock
  <2> QED BY <1>1, <2>1, <2>2, <2>3 DEF VoiceInv
<1>3. CASE Woken
  <2>1. /\ ready # <<>> /\ ready' = Tail(ready) /\ triggers' = triggers + 1
        /\ pstate' = "RECORDING" /\ waking' = "frames" /\ raced' = FALSE
        /\ UNCHANGED <<capture, frames, runTasks, ptt>>
    BY <1>3, Zenon DEF Woken, Starts
  <2>2. ready' \in Seq({"check", "submit"}) /\ \A i \in Submits' : i \in Nat \ {0} /\ i + 1 \in Submits
    BY <1>1, <2>1, SubmitsFewer
  <2>3. ASSUME triggers' <= 1
        PROVE  OneTask'
    <3>1. OneTask /\ triggers = 0
      BY <1>1, <2>1, <2>3
    <3>2. Untouched /\ Submits = {} /\ runTasks = 0 /\ ptt = 0
      BY <1>1, <3>1 DEF OneTask
    <3>3. Submits' = {}
      BY <2>2, <3>2
    <3> QED BY <2>1, <3>1, <3>2, <3>3 DEF OneTask, Untouched, RacedBlock
  <2>4. raced' \in BOOLEAN
    BY <2>1, Zenon
  <2>5. triggers' \in Nat
    BY <1>1, <2>1
  <2> QED BY <1>1, <2>1, <2>2, <2>3, <2>4, <2>5 DEF VoiceInv
<1>4. CASE WakeFrames
  <2>1. /\ waking = "frames" /\ waking' = "deadline" /\ frames' = 1
        /\ UNCHANGED <<pstate, capture, ready, raced, triggers, runTasks, ptt>>
    BY <1>4, Zenon DEF WakeFrames, countVars
  <2>2. triggers = 1 /\ Armed' => Armed
    <3> SUFFICES ASSUME triggers = 1, Armed' PROVE Armed
      OBVIOUS
    <3>1. RacedBlock
      BY <1>1, <2>1 DEF OneTask
    <3> QED BY <2>1, <3>1 DEF Armed, Recorded, RacedBlock
  <2>3. triggers = 0 /\ Untouched => Untouched'
    BY <2>1 DEF Untouched
  <2>4. ASSUME triggers' <= 1
        PROVE  OneTask'
    <3>1. OneTask /\ triggers \in {0, 1} /\ Submits' = Submits
      BY <1>1, <2>1, <2>4, SubmitsSame
    <3>2. triggers = 1
      BY <2>1, <3>1 DEF OneTask, Untouched
    <3> QED BY <2>1, <2>2, <3>1, <3>2 DEF OneTask
  <2> QED BY <1>1, <2>1, <2>4 DEF VoiceInv
<1>5. CASE WakeDeadline
  <2>1. /\ waking = "deadline" /\ waking' = "no"
        /\ UNCHANGED <<pstate, capture, frames, ready, raced, triggers, runTasks, ptt>>
    BY <1>5, Zenon DEF WakeDeadline, thread, countVars
  <2>2. Submits' = Submits /\ (Armed' <=> Armed)
    BY <2>1, SubmitsSame DEF Armed
  <2> QED BY <2>1, <2>2 DEF VoiceInv, OneTask, Untouched
<1>6. CASE NothingSaid \/ Said
  <2>1. /\ ready # <<>> /\ Head(ready) = "submit" /\ ready' = Tail(ready)
        /\ pstate' \in {"LISTENING", "SUBMITTING"} /\ runTasks' \in {runTasks, runTasks + 1}
        /\ UNCHANGED <<capture, frames, waking, raced, triggers, ptt>>
    <3>1. CASE NothingSaid
      BY <3>1, SMT DEF NothingSaid, Starts, countVars
    <3>2. CASE Said
      BY <3>2, SMT DEF Said, Starts
    <3> QED BY <1>6, <3>1, <3>2
  <2>2. /\ ready' \in Seq({"check", "submit"}) /\ 1 \in Submits
        /\ \A i \in Submits' : i \in Nat \ {0} /\ i + 1 \in Submits
    BY <1>1, <2>1, SubmitsFewer
  <2>3. ASSUME triggers' <= 1
        PROVE  OneTask'
    <3>1. OneTask
      BY <1>1, <2>1, <2>3
    <3>2. ~Armed /\ triggers = 1 /\ runTasks = 0 /\ ptt = 0
      BY <2>2, <3>1 DEF OneTask
    <3>3. Submits' = {}
      <4> SUFFICES ASSUME NEW i \in Submits' PROVE FALSE
        OBVIOUS
      <4>1. i \in Nat \ {0} /\ i + 1 = 1
        BY <2>2, <3>1 DEF OneTask
      <4> QED BY <4>1
    <3>4. ~Armed'
      BY <2>1, <3>2 DEF Armed
    <3>5. runTasks' + ptt' <= triggers'
      <4>1. ptt' = ptt /\ triggers' = triggers /\ (runTasks' = runTasks \/ runTasks' = runTasks + 1)
        BY <2>1, Zenon
      <4> QED BY <3>2, <4>1
    <3>6. pstate' # "RECORDING" /\ triggers' # 0 /\ waking' = waking
      BY <2>1, <3>2
    <3>7. waking' = "frames" => RacedBlock'
      BY <2>1, <3>1 DEF OneTask, RacedBlock
    <3> QED BY <3>3, <3>4, <3>5, <3>6, <3>7 DEF OneTask
  <2> QED BY <1>1, <2>1, <2>2, <2>3 DEF VoiceInv
<1>7. CASE Submitted
  <2>1. pstate' = "LISTENING" /\ UNCHANGED <<capture, frames, ready, waking, raced, triggers, runTasks, ptt>>
    BY <1>7, Zenon DEF Submitted, thread
  <2>2. triggers = 1 /\ Armed' => Armed
    BY <2>1 DEF Armed
  <2>3. triggers = 0 /\ Untouched => Untouched'
    BY <2>1 DEF Untouched
  <2>4. triggers = 1 /\ waking' = "frames" => RacedBlock'
    BY <1>1, <2>1 DEF OneTask, RacedBlock
  <2> QED BY <1>1, <2>1, <2>2, <2>3, <2>4, VoiceQuiet
<1>8. CASE PttRequest
  <2>1. /\ triggers' = triggers + 1 /\ ptt' = ptt + 1
        /\ UNCHANGED <<pstate, capture, frames, ready, waking, raced, runTasks>>
    BY <1>8, Zenon DEF PttRequest, thread
  <2>2. ASSUME triggers' <= 1
        PROVE  OneTask'
    <3>1. OneTask /\ triggers = 0
      BY <1>1, <2>1, <2>2
    <3>2. Untouched /\ ~Armed /\ Submits = {} /\ runTasks = 0 /\ ptt = 0
      BY <1>1, <3>1 DEF OneTask
    <3>3. Submits' = {} /\ ~Armed'
      BY <2>1, <3>2, SubmitsSame DEF Armed
    <3> QED BY <2>1, <3>1, <3>2, <3>3 DEF OneTask, Untouched
  <2> QED BY <1>1, <2>1, <2>2 DEF VoiceInv
<1>9. CASE PttEnds
  <2>1. /\ ptt > 0 /\ ptt' = ptt - 1 /\ runTasks' \in {runTasks, runTasks + 1}
        /\ UNCHANGED <<pstate, capture, frames, ready, waking, raced, triggers>>
    BY <1>9, Zenon DEF PttEnds, thread
  <2>2. ASSUME triggers' <= 1
        PROVE  OneTask'
    <3>1. OneTask /\ Submits' = Submits /\ (Armed' <=> Armed)
      BY <1>1, <2>1, <2>2, SubmitsSame DEF Armed
    <3>2. Submits = {} /\ ~Armed
      BY <1>1, <2>1, <3>1 DEF OneTask
    <3>3. runTasks + ptt <= triggers
      BY <3>1 DEF OneTask
    <3>4. runTasks' + ptt' <= triggers'
      <4>1. ptt' = ptt - 1 /\ triggers' = triggers /\ (runTasks' = runTasks \/ runTasks' = runTasks + 1)
        BY <2>1, Zenon
      <4> QED BY <1>1, <3>3, <4>1
    <3> QED BY <2>1, <3>1, <3>2, <3>4 DEF OneTask, Untouched, RacedBlock
  <2>3. ptt' \in Nat /\ runTasks' \in Nat
    BY <1>1, <2>1
  <2> QED BY <1>1, <2>1, <2>2, <2>3 DEF VoiceInv
<1> QED BY <1>2, <1>3, <1>4, <1>5, <1>6, <1>7, <1>8, <1>9 DEF EventLoop

\* Every step keeps it.
LEMMA VoiceNext == VoiceInv /\ [vNext]_vVars => VoiceInv'
<1> SUFFICES ASSUME VoiceInv, [vNext]_vVars PROVE VoiceInv'
  OBVIOUS
<1>1. CASE Capture \/ CaptureFails \/ TimePasses
  BY <1>1, VoiceBlock, VoiceHands DEF Capture
<1>2. CASE EventLoop \/ Submitted \/ PttRequest \/ PttEnds
  BY <1>2, VoiceLoop
<1>3. CASE Connects \/ GoesOffline \/ Announce \/ Spoken \/ UNCHANGED vVars
  <2>1. UNCHANGED <<pstate, capture, frames, ready, waking, raced, triggers, runTasks, ptt>>
    <3>1. CASE Connects
      BY <3>1, Zenon DEF Connects, thread, countVars
    <3>2. CASE GoesOffline
      BY <3>2, Zenon DEF GoesOffline, thread, countVars
    <3>3. CASE Announce
      BY <3>3, Zenon DEF Announce, thread, countVars
    <3>4. CASE Spoken
      BY <3>4, Zenon DEF Spoken, thread, countVars
    <3>5. CASE UNCHANGED vVars
      BY <3>5, Zenon DEF vVars, thread
    <3> QED BY <1>3, <3>1, <3>2, <3>3, <3>4, <3>5
  <2> QED BY <2>1, SubmitsSame DEF VoiceInv, OneTask, Untouched, RacedBlock, Armed
<1> QED BY <1>1, <1>2, <1>3, Zenon DEF vNext

\* Whatever the capture thread does between the assignments of a coroutine, a single
\* wake word or push-to-talk request gives one task at most.
THEOREM OneTaskCorrect == vSpec => []OneTaskPerTrigger
<1>1. VoiceInv => OneTaskPerTrigger
  BY DEF VoiceInv, OneTask, OneTaskPerTrigger
<1> QED BY <1>1, VoiceInit, VoiceNext, PTL DEF vSpec

=============================================================================
