------------------------------- MODULE Voice -------------------------------
(***************************************************************************)
(* The voice sidecar.  The capture thread of HandsfreePipeline drives a state  *)
(* machine block by block; coroutines it hands to the event loop check the     *)
(* wake word, transcribe and submit, and change the same fields without a      *)
(* lock.  _watch announces the daemon's events and looks at the barge-in       *)
(* signal; PttServer records on demand.  Transcription never awaits, so it      *)
(* holds the event loop, and the thread runs on meanwhile.                      *)
(***************************************************************************)
EXTENDS Naturals, Sequences

CONSTANTS
    MaxTriggers,   \* bound on wake words and push-to-talk clients together
    MaxReady,      \* bound on the coroutines that wait while the loop is held
    Enough         \* stands for more than 20 frames, the least that silence ends

\* More than the frame that the wake word leaves.
ASSUME EnoughAssumption == Enough \in Nat /\ Enough > 1

VARIABLES
    pstate,      \* _state
    capture,     \* control point of the thread's block, or "dead"
    frames,      \* length of _recording_frames
    overdue,     \* monotonic() > _speech_end_time
    ready,       \* coroutines handed over and not started
    waking,      \* control point of _check_wake_word, between its assignments
    raced,       \* a block has begun between them
    submitting,  \* coroutines in _submit
    ptt,         \* push-to-talk clients at work
    triggers,    \* wake words heard and push-to-talk requests so far
    runTasks,    \* run_task requests made so far
    barge,       \* barge_in, the event that _tts_stop is
    tts,         \* _watch: offline, ready, speaking
    cutShort     \* the announcement was stopped

thread == <<capture, frames, ready>>
vVars == <<pstate, thread, overdue, waking, raced, submitting, ptt, triggers,
           runTasks, barge, tts, cutShort>>
watchVars == <<tts, cutShort>>
countVars == <<submitting, ptt, triggers, runTasks>>

\* Nothing on the event loop runs while a coroutine is between two awaits.
LoopFree == waking = "no"

MoreFrames == IF frames < Enough THEN frames + 1 ELSE frames

----------------------------------------------------------------------------
(* The capture thread: _loop and _on_chunk *)

\* A block was read; _on_chunk branches on a state that may change under it.
\* Blocks are 80 ms apart: one at most begins between two assignments of a
\* coroutine.
Block ==
    /\ capture = "read"
    /\ waking = "no" \/ ~raced
    /\ raced' = (waking # "no")
    /\ capture' = CASE pstate = "LISTENING" -> "listen"
                    [] pstate = "WAKING"    -> "wake"
                    [] pstate = "RECORDING" -> "record"
                    [] OTHER                -> "read"
    /\ UNCHANGED <<pstate, frames, ready, overdue, waking, countVars, barge, watchVars>>

\* Speech starts a wake segment of at most two seconds.
ListenBlock ==
    /\ capture = "listen" /\ capture' = "read"
    /\ \/ pstate' = "WAKING" /\ overdue' = FALSE
       \/ UNCHANGED <<pstate, overdue>>
    /\ UNCHANGED <<frames, ready, waking, raced, countVars, barge, watchVars>>

\* The segment ends with silence or after its time.
WakeBlock ==
    /\ capture = "wake" /\ capture' = "read"
    /\ Len(ready) < MaxReady
    /\ \/ pstate' = "LISTENING" /\ ready' = Append(ready, "check")
       \/ ~overdue /\ UNCHANGED <<pstate, ready>>
    /\ UNCHANGED <<frames, overdue, waking, raced, countVars, barge, watchVars>>

RecordBlock ==
    /\ capture = "record"
    /\ frames' = MoreFrames
    /\ capture' \in {"timeout?"} \cup (IF frames' = Enough THEN {"silent"} ELSE {})
    /\ UNCHANGED <<pstate, ready, overdue, waking, raced, countVars, barge, watchVars>>

\* _trigger_transcribe, first its assignment of the state ...
Trigger(then) ==
    /\ pstate' = "TRANSCRIBING"
    /\ capture' = then
    /\ UNCHANGED <<frames, ready, overdue, waking, raced, countVars, barge, watchVars>>

\* A second of silence after enough frames; the time is looked at afterwards.
SilenceTriggers == capture = "silent" /\ Trigger("handover_silent")

\* Mutant of TimeTriggers: only silence ends a recording.
TimeTriggers_Never ==
    /\ capture = "timeout?"
    /\ capture' = "read"
    /\ UNCHANGED <<pstate, frames, ready, overdue, waking, raced, countVars, barge, watchVars>>

TimeTriggers ==
    /\ capture = "timeout?"
    /\ \/ overdue /\ Trigger("handover")
       \/ /\ ~overdue /\ capture' = "read"
          /\ UNCHANGED <<pstate, frames, ready, overdue, waking, raced, countVars, barge, watchVars>>

\* Mutant of HandOver: the frames stay in the list.
HandOver_KeepsFrames ==
    /\ capture \in {"handover", "handover_silent"}
    /\ ready' = Append(ready, "submit")
    /\ capture' = IF capture = "handover_silent" THEN "timeout?" ELSE "read"
    /\ UNCHANGED <<pstate, frames, overdue, waking, raced, countVars, barge, watchVars>>

\* ... then the rest: concatenate raises on an empty list, which ends the
\* capture loop for good.
HandOver ==
    /\ capture \in {"handover", "handover_silent"}
    /\ IF frames = 0 THEN capture' = "dead" /\ UNCHANGED <<frames, ready>>
       ELSE /\ frames' = 0
            /\ ready' = Append(ready, "submit")
            /\ capture' = IF capture = "handover_silent" THEN "timeout?" ELSE "read"
    /\ UNCHANGED <<pstate, overdue, waking, raced, countVars, barge, watchVars>>

\* The device fails.
CaptureFails ==
    /\ capture = "read" /\ capture' = "dead"
    /\ UNCHANGED <<pstate, frames, ready, overdue, waking, raced, countVars, barge, watchVars>>

TimePasses ==
    /\ ~overdue /\ overdue' = TRUE
    /\ UNCHANGED <<pstate, thread, waking, raced, countVars, barge, watchVars>>

----------------------------------------------------------------------------
(* Coroutines on the event loop *)

Starts(co) == LoopFree /\ ready # <<>> /\ Head(ready) = co /\ ready' = Tail(ready)

\* _check_wake_word: no wake word, or transcription fails.
NotWoken ==
    /\ Starts("check")
    /\ UNCHANGED <<pstate, capture, frames, overdue, waking, raced, countVars, barge, watchVars>>

\* Its assignments one by one; the thread may run in between.
Woken ==
    /\ Starts("check") /\ triggers < MaxTriggers
    /\ triggers' = triggers + 1
    /\ barge' = TRUE
    /\ pstate' = "RECORDING"
    /\ waking' = "frames" /\ raced' = FALSE
    /\ UNCHANGED <<capture, frames, overdue, submitting, ptt, runTasks, watchVars>>

WakeFrames ==
    /\ waking = "frames" /\ waking' = "deadline"
    /\ frames' = 1
    /\ UNCHANGED <<pstate, capture, ready, overdue, raced, countVars, barge, watchVars>>

WakeDeadline ==
    /\ waking = "deadline" /\ waking' = "no"
    /\ overdue' = FALSE
    /\ UNCHANGED <<pstate, thread, raced, countVars, barge, watchVars>>

\* _transcribe_and_submit: nothing was said, or transcription fails.
NothingSaid ==
    /\ Starts("submit")
    /\ pstate' = "LISTENING"
    /\ UNCHANGED <<capture, frames, overdue, waking, raced, countVars, barge, watchVars>>

Said ==
    /\ Starts("submit")
    /\ pstate' = "SUBMITTING"
    /\ submitting' = submitting + 1
    /\ runTasks' = runTasks + 1
    /\ UNCHANGED <<capture, frames, overdue, waking, raced, ptt, triggers, barge, watchVars>>

\* The request returns, or the daemon is not there.
Submitted ==
    /\ LoopFree /\ submitting > 0
    /\ submitting' = submitting - 1
    /\ pstate' = "LISTENING"
    /\ UNCHANGED <<thread, overdue, waking, raced, ptt, triggers, runTasks, barge, watchVars>>

\* PttServer._handle_client: "record", and in the end a text or none.
PttRequest ==
    /\ LoopFree /\ triggers < MaxTriggers
    /\ triggers' = triggers + 1
    /\ ptt' = ptt + 1
    /\ UNCHANGED <<pstate, thread, overdue, waking, raced, submitting, runTasks, barge, watchVars>>

PttEnds ==
    /\ LoopFree /\ ptt > 0
    /\ ptt' = ptt - 1
    /\ runTasks' \in {runTasks, runTasks + 1}
    /\ UNCHANGED <<pstate, thread, overdue, waking, raced, submitting, triggers, barge, watchVars>>

----------------------------------------------------------------------------
(* _watch *)

Connects ==
    /\ LoopFree /\ tts = "offline" /\ tts' = "ready"
    /\ UNCHANGED <<pstate, thread, overdue, waking, raced, countVars, barge, cutShort>>

\* The event stream ends, say() raises, the daemon is gone: back off.
GoesOffline ==
    /\ LoopFree /\ tts # "offline" /\ tts' = "offline"
    /\ cutShort' = FALSE
    /\ UNCHANGED <<pstate, thread, overdue, waking, raced, countVars, barge>>

\* An event: after a barge-in it is skipped, and stop() finds no process, since
\* only this coroutine ever speaks.  Muted or unknown events change nothing.
Announce ==
    /\ LoopFree /\ tts = "ready"
    /\ IF barge THEN barge' = FALSE /\ UNCHANGED <<tts, cutShort>>
       ELSE tts' = "speaking" /\ cutShort' = FALSE /\ UNCHANGED barge
    /\ UNCHANGED <<pstate, thread, overdue, waking, raced, countVars>>

\* say() returns: the announcement was played to its end or timed out.
Spoken ==
    /\ LoopFree /\ tts = "speaking" /\ tts' = "ready"
    /\ UNCHANGED <<pstate, thread, overdue, waking, raced, countVars, barge, cutShort>>

----------------------------------------------------------------------------

vInit ==
    /\ pstate = "LISTENING" /\ capture = "read" /\ frames = 0 /\ overdue = TRUE
    /\ ready = <<>> /\ waking = "no" /\ raced = FALSE /\ submitting = 0 /\ ptt = 0
    /\ triggers = 0 /\ runTasks = 0
    /\ barge = FALSE /\ tts = "offline" /\ cutShort = FALSE

Capture ==
    \/ Block \/ ListenBlock \/ WakeBlock \/ RecordBlock \/ SilenceTriggers
    \/ TimeTriggers \/ HandOver

EventLoop ==
    \/ NotWoken \/ Woken \/ WakeFrames \/ WakeDeadline \/ NothingSaid \/ Said

vNext ==
    \/ Capture \/ CaptureFails \/ TimePasses \/ EventLoop \/ Submitted
    \/ PttRequest \/ PttEnds
    \/ Connects \/ GoesOffline \/ Announce \/ Spoken

\* The thread, the clock and the event loop are scheduled; requests may hang.
vFair == WF_vVars(Capture) /\ WF_vVars(TimePasses) /\ WF_vVars(EventLoop)

vSpec == vInit /\ [][vNext]_vVars /\ vFair

----------------------------------------------------------------------------
(* Properties *)

\* A wake word or a push-to-talk request gives one run_task at most, although
\* both checks of a block may trigger and the coroutine changes the fields under
\* the thread.  (It takes a second wake word in the middle of a block to get a
\* task too many.)
OneTaskPerTrigger ==
    triggers <= 1 => runTasks + ptt <= triggers

\* A recording ends, and its transcription as well, even if it is never silent:
\* the microphone is not left open, unless the capture thread has died.
RecordingEnds ==
    (pstate \in {"RECORDING", "TRANSCRIBING"}) ~>
        (pstate \notin {"RECORDING", "TRANSCRIBING"} \/ capture = "dead")

\* An announcement during which the wake word fires is stopped.
BargeInStopsSpeech ==
    [][tts = "speaking" /\ barge /\ tts' = "ready" => cutShort']_vVars
=============================================================================
