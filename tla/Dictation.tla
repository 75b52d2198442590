------------------------------ MODULE Dictation -------------------------------
(***************************************************************************)
(* The /voice session of rpiv-voice: the microphone and its adapter, the   *)
(* dictation pipeline (speech buffer, chain of final decodes, at most one  *)
(* partial decode), the state behind the overlay, and the command that     *)
(* opens and closes them.  A chunk of audio is the number of its capture;  *)
(* the text a decode returns for a segment is the chunks it was made of.   *)
(* The engine is its interface, a promise: a decode may settle late.       *)
(***************************************************************************)
EXTENDS Integers, Sequences, SequencesExt, Absence

CONSTANTS
  Attempts,   \* capture rates createMic tries, 16 kHz first
  CapChunks,  \* MAX_SEGMENT_SAMPLES, in chunks
  ScanChunks, \* CAP_CUT_SCAN_SAMPLES, in chunks
  MaxChunks   \* bound: chunks the device delivers

ASSUME DictationAssumption ==
  /\ Attempts \in Nat \ {0} /\ CapChunks \in Nat \ {0} /\ ScanChunks \in Nat \ {0}
  /\ MaxChunks \in Nat /\ None \notin Seq(Nat)

VARIABLES
  device,   \* the raw stream and the attempt to open it
  captured, \* number of chunks the device delivered so far
  pending,  \* MicAdapterBase.pending: events no listener has seen yet
  buffer,   \* speechBuffer
  queue,    \* the recognizing chain: segments whose final decode is due
  partial,  \* the partial decode in flight: its snapshot and epoch
  epoch,    \* utteranceEpoch
  paused, filter, transcript, \* the pipeline's other locals
  ui,       \* VoiceState
  config,   \* voice.json, as the draft it loads to
  command,  \* how far runDictationSession has come
  awaited,  \* finish: how many segments have to settle first
  settled,  \* history: the segments whose final decode has settled
  skipped   \* history: chunks that arrived while paused

deviceVars == <<device, captured, pending>>
pipelineVars == <<buffer, queue, partial, epoch, paused, filter, transcript, awaited>>
historyVars == <<settled, skipped>>
vars == <<deviceVars, pipelineVars, ui, config, command, historyVars>>

(* The equalizer setting and the focused field reach only the view.        *)
SettingsDraft == [hallucination : BOOLEAN]
VoiceState == [screen : {"dictation", "settings"}, status : {"recording", "paused"},
               transcript : Seq(Nat), partial : Seq(Nat),
               draft : SettingsDraft]
Device == [at : {"opening", "refused", "live", "stopped", "over"}, attempt : 1..Attempts,
           inSpeech : BOOLEAN]
Event == [kind : {"data", "silence", "end", "error"}, chunk : Nat]
CommandAt == {"preflight", "failed", "open", "closing", "closed"}
Command == [at : CommandAt, intent : {None, "commit", "cancel"},
            text : Seq(Nat), pasted : Seq(Nat), aborted : BOOLEAN]

initialVoiceState(draft) ==
  [screen |-> "dictation", status |-> "recording", transcript |-> <<>>,
   partial |-> <<>>, draft |-> draft]

Init ==
  /\ device = [at |-> "opening", attempt |-> 1, inSpeech |-> FALSE] /\ captured = 0 /\ pending = <<>>
  /\ buffer = <<>> /\ queue = <<>> /\ partial = None /\ epoch = 0
  /\ paused = FALSE /\ transcript = <<>> /\ awaited = None
  /\ config \in SettingsDraft /\ filter = config.hallucination
  /\ ui = initialVoiceState(config)
  /\ command = [at |-> "preflight", intent |-> None, text |-> <<>>, pasted |-> <<>>,
                aborted |-> FALSE]
  /\ settled = <<>> /\ skipped = {}

-----------------------------------------------------------------------------
(* The microphone.                                                         *)

(* An event of the raw stream; the adapter forwards it, or keeps it until  *)
(* the pipeline has its listeners in place.                                *)
Emit(kind, chunk) == pending' = Append(pending, [kind |-> kind, chunk |-> chunk])

(* The constructor throws, or an error comes first: the next rate is       *)
(* tried, and after the last one the command gives up.                     *)
OpenRefused ==
  /\ device.at = "opening"
  /\ IF device.attempt < Attempts
     THEN /\ device' = [device EXCEPT !.attempt = @ + 1]
          /\ UNCHANGED command
     ELSE /\ device' = [device EXCEPT !.at = "refused"]
          /\ command' = [command EXCEPT !.at = "failed"]
  /\ UNCHANGED <<captured, pending, pipelineVars, ui, config, historyVars>>

(* Data comes first, or nothing does until the timeout.  Which rate it was *)
(* decides no more than the way the samples are resampled.                 *)
Opened(byData) ==
  /\ device.at = "opening"
  /\ device' = [device EXCEPT !.at = "live", !.attempt = 1, !.inSpeech = byData]
  /\ IF byData
     THEN /\ captured < MaxChunks
          /\ captured' = captured + 1
          /\ Emit("data", captured + 1)
     ELSE UNCHANGED <<captured, pending>>
  /\ UNCHANGED <<pipelineVars, ui, config, command, historyVars>>

Capture ==
  /\ device.at \in {"live", "stopped"} /\ captured < MaxChunks
  /\ captured' = captured + 1
  /\ device' = [device EXCEPT !.inSpeech = TRUE]
  /\ Emit("data", captured + 1)
  /\ UNCHANGED <<pipelineVars, ui, config, command, historyVars>>

(* The end of a stretch of speech, told by Silero or by the energy gate. *)
Silence ==
  /\ device.at \in {"live", "stopped"} /\ device.inSpeech
  /\ device' = [device EXCEPT !.inSpeech = FALSE]
  /\ Emit("silence", 0)
  /\ UNCHANGED <<captured, pipelineVars, ui, config, command, historyVars>>

DeviceEnds(kind) ==
  /\ kind = "end" => device.at = "stopped"
  /\ kind = "error" => device.at \in {"live", "stopped"}
  /\ device' = [device EXCEPT !.at = "over"]
  /\ Emit(kind, 0)
  /\ UNCHANGED <<captured, pipelineVars, ui, config, command, historyVars>>

MicStopped == IF device.at = "live" THEN [device EXCEPT !.at = "stopped"] ELSE device

-----------------------------------------------------------------------------
(* What the pipeline does with an event of the microphone.                 *)

Attached == command.at \in {"open", "closing", "closed"}

StartSession ==
  /\ command.at = "preflight" /\ device.at \in {"live", "over"}
  /\ command' = [command EXCEPT !.at = "open"]
  /\ UNCHANGED <<deviceVars, pipelineVars, ui, config, historyVars>>

flushBuffer(chunks) ==
  /\ buffer' = <<>>
  /\ IF chunks = <<>> THEN UNCHANGED <<queue, epoch>>
     ELSE queue' = Append(queue, chunks) /\ epoch' = epoch + 1

(* The index of a quietest chunk among the last ScanChunks, never the      *)
(* first: a buffer of one chunk has none and is flushed whole.             *)
CutIndices(chunks) == {i \in 2..Len(chunks) : i > Len(chunks) - ScanChunks}

(* Mutant: the tail behind the cut is dropped. *)
queueCapFlushHeadOnly(chunks) ==
  IF CutIndices(chunks) = {} THEN flushBuffer(chunks)
  ELSE \E cut \in CutIndices(chunks) :
         /\ queue' = Append(queue, SubSeq(chunks, 1, cut - 1))
         /\ buffer' = <<>>
         /\ epoch' = epoch + 1

queueCapFlush(chunks) ==
  IF CutIndices(chunks) = {} THEN flushBuffer(chunks)
  ELSE \E cut \in CutIndices(chunks) :
         /\ queue' = Append(queue, SubSeq(chunks, 1, cut - 1))
         /\ buffer' = SubSeq(chunks, cut, Len(chunks))
         /\ epoch' = epoch + 1

(* One partial at a time and at most one per interval: it may not be due.  *)
tryEmitPartial(chunks) ==
  \/ UNCHANGED partial
  \/ /\ partial = None
     /\ partial' = [snapshot |-> chunks, epoch |-> epoch]

OnData(chunk) ==
  IF paused
  THEN /\ skipped' = skipped \cup {chunk}
       /\ UNCHANGED <<buffer, queue, partial, epoch>>
  ELSE LET chunks == Append(buffer, chunk)
       IN  /\ IF Len(chunks) >= CapChunks
              THEN queueCapFlush(chunks) /\ UNCHANGED partial
              ELSE /\ buffer' = chunks
                   /\ tryEmitPartial(chunks)
                   /\ UNCHANGED <<queue, epoch>>
           /\ UNCHANGED skipped

OnSilence ==
  /\ IF paused THEN UNCHANGED <<buffer, queue, epoch>> ELSE flushBuffer(buffer)
  /\ UNCHANGED <<partial, skipped>>

(* finish: what is left is flushed and the chain as it is then awaited. *)
OnShutdown ==
  /\ flushBuffer(buffer)
  /\ awaited' = Len(settled) + Len(queue')
  /\ UNCHANGED <<partial, skipped>>

(* The adapter hands over its oldest event. *)
Deliver ==
  /\ Attached /\ pending # <<>>
  /\ pending' = Tail(pending)
  /\ LET event == Head(pending) IN
       \/ event.kind = "data" /\ OnData(event.chunk) /\ UNCHANGED awaited
       \/ event.kind = "silence" /\ OnSilence /\ UNCHANGED awaited
       \/ event.kind \in {"end", "error"} /\ OnShutdown
  /\ UNCHANGED <<device, captured, paused, filter, transcript, ui, config, command, settled>>

-----------------------------------------------------------------------------
(* Decodes.                                                                *)

Outcome == {"text", "filler", "empty", "quiet", "throws"}

IsText(outcome) == outcome = "text" \/ (outcome = "filler" /\ ~filter)

(* Mutant: a final decode without text leaves the preview on the screen.   *)
audioTranscriptAppendedOnlyText(state, text) ==
  IF text = <<>> THEN state
  ELSE [state EXCEPT !.transcript = @ \o text, !.partial = <<>>]

audioTranscriptAppended(state, text) ==
  [state EXCEPT !.transcript = @ \o text, !.partial = <<>>]

audioPartialTranscriptSet(state, text) == [state EXCEPT !.partial = text]

(* Mutant: filler reaches the pipeline's own transcript. *)
recognizeFinalUnfiltered(outcome) ==
  /\ queue # <<>>
  /\ LET segment == Head(queue)
         text == IF IsText(outcome) THEN segment ELSE <<>>
     IN  /\ queue' = Tail(queue)
         /\ settled' = Append(settled, segment)
         /\ transcript' = IF outcome \in {"text", "filler"} THEN transcript \o segment
                          ELSE transcript
         /\ ui' = audioTranscriptAppended(ui, text)
  /\ UNCHANGED <<deviceVars, buffer, partial, epoch, paused, filter, awaited, config,
                 command, skipped>>

(* The oldest segment's decode settles; whatever comes of it, the preview  *)
(* ends and the chain goes on.                                             *)
recognizeFinal(outcome) ==
  /\ queue # <<>>
  /\ LET segment == Head(queue)
         text == IF IsText(outcome) THEN segment ELSE <<>>
     IN  /\ queue' = Tail(queue)
         /\ settled' = Append(settled, segment)
         /\ transcript' = transcript \o text
         /\ ui' = audioTranscriptAppended(ui, text)
  /\ UNCHANGED <<deviceVars, buffer, partial, epoch, paused, filter, awaited, config,
                 command, skipped>>

(* A quiet snapshot is not decoded; a late one is not shown. *)
PartialSettles(outcome) ==
  /\ partial # None
  /\ partial' = None
  /\ ui' = IF partial.epoch # epoch \/ outcome \in {"quiet", "throws"} THEN ui
           ELSE CASE IsText(outcome) -> audioPartialTranscriptSet(ui, partial.snapshot)
                  [] outcome = "empty" /\ ~filter -> audioPartialTranscriptSet(ui, <<>>)
                  [] OTHER -> ui
  /\ UNCHANGED <<deviceVars, buffer, queue, epoch, paused, filter, transcript, awaited,
                 config, command, historyVars>>

-----------------------------------------------------------------------------
(* Keys.                                                                   *)

OnScreen(screen) == command.at = "open" /\ ui.screen = screen

togglePause ==
  /\ OnScreen("dictation")
  /\ ui' = [ui EXCEPT !.status = IF @ = "paused" THEN "recording" ELSE "paused"]
  /\ paused' = (ui'.status = "paused")
  /\ UNCHANGED <<deviceVars, buffer, queue, partial, epoch, filter, transcript, awaited,
                 config, command, historyVars>>

commit ==
  /\ OnScreen("dictation")
  /\ command' = [command EXCEPT !.at = "closing", !.intent = "commit",
                                !.text = ui.transcript \o ui.partial]
  /\ UNCHANGED <<deviceVars, pipelineVars, ui, config, historyVars>>

(* Mutant: the abort stops no microphone. *)
AbortIgnored == device' = device

(* mic.stop() is called by the abort listener, which finish removes. *)
Abort == device' = IF awaited = None THEN MicStopped ELSE device

cancel ==
  /\ OnScreen("dictation")
  /\ Abort
  /\ command' = [command EXCEPT !.at = "closing", !.intent = "cancel", !.aborted = TRUE]
  /\ UNCHANGED <<captured, pending, pipelineVars, ui, config, historyVars>>

openSettings ==
  /\ OnScreen("dictation")
  /\ ui' = [ui EXCEPT !.screen = "settings"]
  /\ UNCHANGED <<deviceVars, pipelineVars, config, command, historyVars>>

(* The draft is saved on the way out; the write may fail. *)
closeSettings(saved) ==
  /\ OnScreen("settings")
  /\ ui' = [ui EXCEPT !.screen = "dictation"]
  /\ config' = IF saved THEN ui.draft ELSE config
  /\ UNCHANGED <<deviceVars, pipelineVars, command, historyVars>>

settingsSave(saved) ==
  /\ OnScreen("settings")
  /\ config' = IF saved THEN ui.draft ELSE config
  /\ UNCHANGED <<deviceVars, pipelineVars, ui, command, historyVars>>

toggleFocusedSetting ==
  /\ OnScreen("settings")
  /\ ui' = [ui EXCEPT !.draft.hallucination = ~@]
  /\ filter' = ui'.draft.hallucination
  /\ UNCHANGED <<deviceVars, buffer, queue, partial, epoch, paused, transcript, awaited,
                 config, command, historyVars>>

(* runDictationSession after done: abort, release, paste what was chosen. *)
Close ==
  /\ command.at = "closing"
  /\ IF command.aborted THEN UNCHANGED device ELSE Abort
  /\ command' = [command EXCEPT !.at = "closed", !.aborted = TRUE,
                   !.pasted = IF command.intent = "commit" THEN command.text ELSE <<>>]
  /\ UNCHANGED <<captured, pending, pipelineVars, ui, config, historyVars>>

-----------------------------------------------------------------------------
(* Events an adapter has kept are handed over in one go: nothing else runs *)
(* until they are.                                                         *)
Draining == Attached /\ pending # <<>>

Microphone ==
  \/ OpenRefused
  \/ \E byData \in BOOLEAN : Opened(byData)
  \/ Capture
  \/ Silence
  \/ \E kind \in {"end", "error"} : DeviceEnds(kind)

Decode == \E outcome \in Outcome : recognizeFinal(outcome) \/ PartialSettles(outcome)

Keys ==
  \/ togglePause
  \/ commit
  \/ cancel
  \/ openSettings
  \/ \E saved \in BOOLEAN : closeSettings(saved) \/ settingsSave(saved)
  \/ toggleFocusedSetting

Next ==
  \/ Deliver
  \/ ~Draining /\ (Microphone \/ Decode \/ StartSession \/ Keys \/ Close)

DictationSpec == Init /\ [][Next]_vars

(* The event loop runs what is ready, a stream that is stopped ends, and   *)
(* every decode settles; users and speech are not fair.                    *)
Fairness ==
  /\ WF_vars(Deliver)
  /\ WF_vars(~Draining /\ \E outcome \in Outcome : recognizeFinal(outcome))
  /\ WF_vars(~Draining /\ \E outcome \in Outcome : PartialSettles(outcome))
  /\ WF_vars(~Draining /\ Close)
  /\ WF_vars(~Draining /\ DeviceEnds("end"))

-----------------------------------------------------------------------------
TypeOK ==
  /\ device \in Device /\ captured \in 0..MaxChunks /\ pending \in Seq(Event)
  /\ buffer \in Seq(Nat) /\ queue \in Seq(Seq(Nat)) /\ epoch \in Nat
  /\ partial \in [snapshot : Seq(Nat), epoch : Nat] \cup {None}
  /\ paused \in BOOLEAN /\ filter \in BOOLEAN /\ transcript \in Seq(Nat)
  /\ ui \in VoiceState /\ config \in SettingsDraft /\ command \in Command
  /\ awaited \in Nat \cup {None}
  /\ settled \in Seq(Seq(Nat)) /\ skipped \subseteq Nat

Rising(seq) == \A i, j \in DOMAIN seq : i < j => seq[i] < seq[j]
ChunkOf(event) == IF event.kind = "data" THEN <<event.chunk>> ELSE <<>>
Waiting == FlattenSeq([i \in DOMAIN pending |-> ChunkOf(pending[i])])

(* Every chunk the device delivered is exactly once in a segment that was  *)
(* decoded or is queued, in the buffer or in the adapter's queue, in the   *)
(* order it was spoken, unless the user had paused (pipeline-runner.ts).   *)
NothingLost ==
  LET held == FlattenSeq(settled) \o FlattenSeq(queue) \o buffer \o Waiting
  IN  Rising(held) /\ Range(held) = 1..captured \ skipped

(* The overlay and the pipeline, which keep copies of one another's state, *)
(* agree on the transcript, the pause and the filter, and the preview      *)
(* shows nothing whose final decode has settled, so Enter never pastes a   *)
(* phrase twice or one rejected as noise (voice-session.ts:133-180).       *)
OverlayAgrees ==
  /\ Range(ui.partial) \cap Range(FlattenSeq(settled)) = {}
  /\ ui.transcript = transcript
  /\ paused <=> ui.status = "paused"
  /\ filter <=> ui.draft.hallucination

(* Once the user is done the microphone is let go and the final transcript *)
(* resolves (pipeline-runner.ts:219-238).                                  *)
WindsDown == command.at = "closing" ~>
  (device.at = "over" /\ awaited # None /\ Len(settled) >= awaited)
=============================================================================
