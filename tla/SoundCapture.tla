---------------------------- MODULE SoundCapture ----------------------------
(***************************************************************************)
(* The sound of a share under PulseAudio                                   *)
(* (desktop/system_audio_capture.cpp, the DISQUISITION_HAVE_PULSE part):   *)
(* each application's stream is recorded on its own and mixed, while       *)
(* streams start, move between sinks and end.  The server's side is        *)
(* external: requests and messages keep their order, a stream that moves   *)
(* or ends takes its recordings with it and then reports the event, and a  *)
(* recording can only be made on the sink its stream plays to.             *)
(***************************************************************************)
EXTENDS Integers, Sequences, FiniteSets, SequencesExt, FiniteSetsExt

CONSTANTS
    SinkInputs,     \* the streams applications play, by index
    Chosen,         \* those that belong in the share: State::wanted
    Sinks, NoSink,
    PrimingSound,     \* kPrimeSamples, in samples of one mix
    MaxHeldSound,       \* kMaxBufferedSamples, in samples of one mix
    MaxRecordings,  \* a bound on the recordings made
    MaxSoundEvents, \* a bound on streams starting, moving and ending
    MaxReads        \* a bound on the deliveries of sound

ASSUME SoundCaptureAssumption ==
    /\ IsFiniteSet(SinkInputs) /\ Chosen \subseteq SinkInputs /\ NoSink \notin Sinks
    /\ PrimingSound \in Nat \ {0} /\ MaxHeldSound \in Nat /\ PrimingSound <= MaxHeldSound
    /\ MaxRecordings \in Nat /\ MaxSoundEvents \in Nat /\ MaxReads \in Nat

VARIABLES
    recordings,     \* inputs: sink input -> [stream, buffered, primed]
    asked,          \* what the server has not handled yet
    told,           \* what the capture thread has not handled yet
    played,         \* the server's: where each sink input plays
    live,           \* the server's recordings, <<sink input, stream>>
    soundSpent      \* [streams, events, reads]

soundVars == <<recordings, asked, told, played, live, soundSpent>>

NoRecordings == <<>>    \* the empty function

\* open: the subscription is in force, and the list of sink inputs asked for.
SoundInit ==
    /\ recordings = NoRecordings
    /\ asked = <<[ask |-> "list"]>> /\ told = <<>>
    /\ played \in [SinkInputs -> Sinks \cup {NoSink}] /\ live = {}
    /\ soundSpent = [streams |-> 0, events |-> 0, reads |-> 0]

Recorded(i) == i \in DOMAIN recordings

-----------------------------------------------------------------------------
(* The capture thread.                                                       *)

AskServer(request) == asked' = Append(asked, request)

\* State::forget.
Forget(i) ==
    /\ recordings' = [j \in DOMAIN recordings \ {i} |-> recordings[j]]
    /\ AskServer([ask |-> "stop", input |-> i, stream |-> recordings[i].stream])
    /\ UNCHANGED soundSpent

Ignore == UNCHANGED <<recordings, asked, soundSpent>>

\* State::onEvent.
OnEvent(message) ==
    IF message.event = "remove"
    THEN IF Recorded(message.input) THEN Forget(message.input) ELSE Ignore
    ELSE AskServer([ask |-> "info", input |-> message.input]) /\ UNCHANGED <<recordings, soundSpent>>

\* State::onInputInfo.
OnInputInfo(message) ==
    IF Recorded(message.input) \/ message.input \notin Chosen THEN Ignore
    ELSE /\ AskServer([ask |-> "sink", input |-> message.input, sink |-> message.sink])
         /\ UNCHANGED <<recordings, soundSpent>>

\* State::record.
Record(message) ==
    IF Recorded(message.input) THEN Ignore
    ELSE /\ soundSpent.streams < MaxRecordings
         /\ LET stream == soundSpent.streams + 1
                made == [stream |-> stream, buffered |-> 0, primed |-> FALSE]
            IN  /\ recordings' = [j \in DOMAIN recordings \cup {message.input} |->
                                    IF j = message.input THEN made ELSE recordings[j]]
                /\ AskServer([ask |-> "record", input |-> message.input, sink |-> message.sink,
                        stream |-> stream])
                /\ soundSpent' = [soundSpent EXCEPT !.streams = stream]

\* Mutant: a recording that ended stays among the inputs.
OnEndedKept(message) == Ignore

\* The state callback of a recording that failed or was terminated.
OnEnded(message) ==
    IF Recorded(message.input) /\ recordings[message.input].stream = message.stream
    THEN Forget(message.input) ELSE Ignore

HandleMessage ==
    /\ told # <<>>
    /\ told' = Tail(told)
    /\ LET message == Head(told)
       IN  CASE message.tell = "event" -> OnEvent(message)
             [] message.tell = "info"  -> OnInputInfo(message)
             [] message.tell = "sink"  -> Record(message)
             [] message.tell = "ended" -> OnEnded(message)
    /\ UNCHANGED <<played, live>>

\* State::onRead: too much buffered sound is cut back to what primes a stream.
OnRead(i, amount) ==
    /\ soundSpent.reads < MaxReads
    /\ Recorded(i) /\ <<i, recordings[i].stream>> \in live
    /\ LET total == recordings[i].buffered + amount
       IN  recordings' = [recordings EXCEPT ![i].buffered =
                            IF total > MaxHeldSound THEN PrimingSound ELSE total]
    /\ soundSpent' = [soundSpent EXCEPT !.reads = @ + 1]
    /\ UNCHANGED <<asked, told, played, live>>

\* What State::onTick takes from one recording; one that runs dry waits again.
MixedIn(r) ==
    IF ~r.primed /\ r.buffered < PrimingSound THEN r
    ELSE IF r.buffered > 0 THEN [r EXCEPT !.buffered = @ - 1, !.primed = TRUE]
    ELSE [r EXCEPT !.primed = FALSE]

OnTick ==
    /\ recordings # NoRecordings
    /\ recordings' = [i \in DOMAIN recordings |-> MixedIn(recordings[i])]
    /\ UNCHANGED <<asked, told, played, live, soundSpent>>

\* stop, which closes the connection, and start, for the next share.
Reopen ==
    /\ soundSpent.streams > 0 /\ soundSpent.streams < MaxRecordings
    /\ recordings' = NoRecordings /\ live' = {}
    /\ asked' = <<[ask |-> "list"]>> /\ told' = <<>>
    /\ UNCHANGED <<played, soundSpent>>

-----------------------------------------------------------------------------
(* The server, external.                                                     *)

Playing(i) == played[i] # NoSink

InfoOf(i) == [tell |-> "info", input |-> i, sink |-> played[i]]

HandleRequest ==
    /\ asked # <<>>
    /\ asked' = Tail(asked)
    /\ LET request == Head(asked)
           reply(messages) == told' = told \o messages
       IN  CASE request.ask = "list" ->
                  /\ reply([n \in 1..Cardinality({i \in SinkInputs : Playing(i)}) |->
                              InfoOf(SetToSeq({i \in SinkInputs : Playing(i)})[n])])
                  /\ UNCHANGED live
             [] request.ask = "info" ->
                  /\ reply(IF Playing(request.input) THEN <<InfoOf(request.input)>> ELSE <<>>)
                  /\ UNCHANGED live
             [] request.ask = "sink" ->
                  /\ reply(<<[tell |-> "sink", input |-> request.input, sink |-> request.sink]>>)
                  /\ UNCHANGED live
             [] request.ask = "record" ->
                  IF played[request.input] = request.sink
                  THEN reply(<<>>) /\ live' = live \cup {<<request.input, request.stream>>}
                  ELSE /\ reply(<<[tell |-> "ended", input |-> request.input,
                                   stream |-> request.stream]>>)
                       /\ UNCHANGED live
             [] request.ask = "stop" ->
                  reply(<<>>) /\ live' = live \ {<<request.input, request.stream>>}
    /\ UNCHANGED <<recordings, played, soundSpent>>

\* A stream starts, moves to another sink or ends.
PlayOn(i, sink) ==
    /\ soundSpent.events < MaxSoundEvents
    /\ played[i] # sink
    /\ LET ended == {pair \in live : pair[1] = i}
           kills == SetToSeq({[tell |-> "ended", input |-> i, stream |-> pair[2]] : pair \in ended})
           event == IF sink = NoSink THEN "remove" ELSE IF Playing(i) THEN "change" ELSE "new"
       IN  /\ told' = told \o kills \o <<[tell |-> "event", event |-> event, input |-> i]>>
           /\ live' = live \ ended
    /\ played' = [played EXCEPT ![i] = sink]
    /\ soundSpent' = [soundSpent EXCEPT !.events = @ + 1]
    /\ UNCHANGED <<recordings, asked>>

-----------------------------------------------------------------------------
SoundNext ==
    \/ HandleMessage \/ OnTick \/ Reopen \/ HandleRequest
    \/ \E i \in SinkInputs, amount \in 1..PrimingSound : OnRead(i, amount)
    \/ \E i \in SinkInputs, sink \in Sinks \cup {NoSink} : PlayOn(i, sink)

SoundSpec == SoundInit /\ [][SoundNext]_soundVars

-----------------------------------------------------------------------------
(* Properties.                                                               *)

SoundTypeOK ==
    /\ DOMAIN recordings \subseteq Chosen
    /\ \A i \in DOMAIN recordings :
          /\ recordings[i].stream \in 1..soundSpent.streams
          /\ recordings[i].buffered \in 0..MaxHeldSound /\ recordings[i].primed \in BOOLEAN
    /\ played \in [SinkInputs -> Sinks \cup {NoSink}]
    /\ live \subseteq SinkInputs \X (1..soundSpent.streams)

SoundSettled == asked = <<>> /\ told = <<>>

\* Once every message has been handled, the share records exactly the streams
\* the server records for it: none that ended, moved or was forgotten is left on
\* either side, and none is recorded twice (system_audio_capture.cpp, forget).
RecordingsAreLive ==
    SoundSettled => live = {<<i, recordings[i].stream>> : i \in DOMAIN recordings}

\* The recordings of the shared sound are well-typed, bounded, and the server's.
SoundInv == SoundTypeOK /\ RecordingsAreLive
=============================================================================
