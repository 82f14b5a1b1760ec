--------------------------- MODULE RecordingPlayer ---------------------------
(***************************************************************************)
(* hw::mcap_record_player over io::recording_reader.  Every member function *)
(* holds the player's mutex, so each is one action.                        *)
(* A file is its camera streams and its messages in file order: a channel  *)
(* (a stream, or another topic such as a calibration), a log time in       *)
(* nanoseconds, and whether its image decodes.  A cursor is the set of     *)
(* messages its view has not reached; one that could not be built gives    *)
(* nothing, as one at its end.                                             *)
(* A definition marked FAULTY is a defect that one of the properties at the *)
(* end catches; the specification does not use it.                         *)
(***************************************************************************)
EXTENDS Integers, FiniteSets, Sequences

CONSTANTS
    Files,             \* the recordings that may be opened
    Micro,             \* nanoseconds to a microsecond
    Targets            \* timeline positions asked for, in microseconds

Messages == [channel : STRING, time : Nat, decodes : BOOLEAN]

ASSUME PlayerAssumption ==
    /\ Files \subseteq [cameras : SUBSET STRING, log : Seq(Messages)]
    /\ Micro \in Nat \ {0}
    /\ Targets \subseteq Nat

VARIABLES
    file,              \* _reader's file
    opened,            \* _opened, the player's and the reader's
    stream,            \* _stream_id
    autoRepeat,        \* _auto_repeat
    cursor,            \* _cursors[_stream_id]
    fetched,           \* the message whose frame was fetched last, 0: nullptr
    target,            \* history: the position last sought, in nanoseconds
    played             \* history: messages fetched since

fileVars == <<file, opened, stream>>
vars == <<file, opened, stream, autoRepeat, cursor, fetched, target, played>>

Log == file.log

\* std::chrono::duration_cast between the two units truncates.
ToMicrosUp(ns) == (ns + Micro - 1) \div Micro                   \* FAULTY
ToMicros(ns) == ns \div Micro
ToNanos(us) == us * Micro

\* The container plays by log time, and equal times in file order.
Before(i, j) == \/ Log[i].time < Log[j].time
                \/ Log[i].time = Log[j].time /\ i < j

\* The statistics count every message, of other topics too.
Times == {Log[i].time : i \in DOMAIN Log}
FirstTime == IF Times = {} THEN 0 ELSE CHOOSE t \in Times : \A u \in Times : t <= u
LastTime  == IF Times = {} THEN 0 ELSE CHOOSE t \in Times : \A u \in Times : u <= t

Clamp(t) == IF t < FirstTime THEN FirstTime
            ELSE IF t > LastTime THEN LastTime ELSE t

\* A fresh view of the stream's messages that starts at a time.
From(t) == {i \in DOMAIN Log : Log[i].channel = stream /\ Log[i].time >= t}

Decoding(c) == {i \in c : Log[i].decodes}
Earliest(c) == CHOOSE i \in c : \A j \in c \ {i} : Before(i, j)

-----------------------------------------------------------------------------
Init ==
    /\ file = [cameras |-> {}, log |-> <<>>]
    /\ opened = FALSE
    /\ stream = ""
    /\ autoRepeat = FALSE
    /\ cursor = {}
    /\ fetched = 0
    /\ target = 0 /\ played = {}

\* The reader's streams in channel order, each with a cursor at the start.
OpenReader(f) ==
    /\ file' = f
    /\ stream' \in f.cameras
    /\ cursor' = From(FirstTime)'

\* A player that the provider just made.  An open that fails leaves it closed.
Open(f) ==
    /\ ~opened
    /\ f \in Files /\ f.cameras # {}
    /\ OpenReader(f)
    /\ opened' = TRUE
    /\ autoRepeat' = FALSE
    /\ fetched' = 0
    /\ target' = FirstTime' /\ played' = {}

EnableAutoRepeat ==
    /\ autoRepeat' \in BOOLEAN
    /\ UNCHANGED <<fileVars, cursor, fetched, target, played>>

SeekKeepingCursor(t) ==                                         \* FAULTY
    /\ opened
    /\ cursor' = {i \in cursor : i \in From(Clamp(t))}
    /\ target' = t /\ played' = {}
    /\ UNCHANGED <<fileVars, autoRepeat, fetched>>

\* The reader's seek_timestamp().
Seek(t) ==
    /\ opened
    /\ cursor' = From(Clamp(t))
    /\ target' = t /\ played' = {}
    /\ UNCHANGED <<fileVars, autoRepeat, fetched>>

\* The view could not be built: the stream is left without a cursor.
SeekFails ==
    /\ opened
    /\ cursor' = {}
    /\ target' = LastTime + 1 /\ played' = {}
    /\ UNCHANGED <<fileVars, autoRepeat, fetched>>

SeekBegin == Seek(FirstTime)
SeekEnd   == Seek(LastTime)
SeekTimestamp == \E us \in Targets : Seek(ToNanos(us))

\* fetch_next_frame() on a cursor: the bad frames before the next good one are
\* passed over.
AdvanceToEndOnBad(c, s) ==                                      \* FAULTY
    IF c = {} \/ ~Log[Earliest(c)].decodes
    THEN fetched' = 0 /\ cursor' = c /\ played' = s
    ELSE /\ fetched' = Earliest(c)
         /\ cursor' = c \ {Earliest(c)}
         /\ played' = s \cup {fetched'}

Advance(c, s) ==
    IF Decoding(c) = {}
    THEN fetched' = 0 /\ cursor' = {} /\ played' = s
    ELSE /\ fetched' = Earliest(Decoding(c))
         /\ cursor' = {i \in c : Before(fetched', i)}
         /\ played' = s \cup {fetched'}

Fetch ==
    /\ opened
    /\ Decoding(cursor) # {} \/ ~autoRepeat
    /\ Advance(cursor, played)
    /\ UNCHANGED <<fileVars, autoRepeat, target>>

\* The end of a repeated recording: one more try from its first timestamp, with
\* a view that may not be built.
FetchAgain ==
    /\ opened
    /\ Decoding(cursor) = {} /\ autoRepeat
    /\ \/ target' = FirstTime /\ Advance(From(FirstTime), {})
       \/ target' = LastTime + 1 /\ Advance({}, {})
    /\ UNCHANGED <<fileVars, autoRepeat>>

CloseReader ==
    /\ file' = [cameras |-> {}, log |-> <<>>] /\ stream' = ""
    /\ cursor' = {}

Close ==
    /\ opened
    /\ opened' = FALSE
    /\ CloseReader
    /\ fetched' = 0
    /\ target' = 0 /\ played' = {}
    /\ UNCHANGED autoRepeat

Next == \/ \E f \in Files : Open(f)
        \/ EnableAutoRepeat
        \/ SeekBegin \/ SeekEnd \/ SeekTimestamp \/ SeekFails
        \/ Fetch \/ FetchAgain \/ Close

Spec == Init /\ [][Next]_vars

-----------------------------------------------------------------------------
(* Properties *)

\* What there is to play: the stream's images that decode.
Frames == {i \in DOMAIN Log : Log[i].channel = stream /\ Log[i].decodes}

\* recording_reader.hh: a seek "Restarts the stream's iteration at the first
\* frame at or after `timestamp`", or at the recording's last time when that is
\* earlier: since then the stream's decodable frames have come in time order,
\* each once, none left out and none from before.
SeekLandsRight ==
    /\ \A i \in played : Log[i].time >= target \/ target > LastTime
    /\ \A i \in played, j \in Frames :
          (Before(j, i) /\ Log[j].time >= Clamp(target)) => j \in played

\* Seeking the timeline to the timestamp that a frame was shown with shows a frame
\* with that timestamp, although it is cut to microseconds.
ShownIsFoundAgain ==
    \A i \in Frames :
        (target = ToNanos(ToMicros(Log[i].time)) /\ played # {})
            => \E j \in played : ToMicros(Log[j].time) = ToMicros(Log[i].time)

-----------------------------------------------------------------------------
(* What the polling thread is promised: the frames, numbered in the order    *)
(* they are played.                                                         *)
Rank(i) == Cardinality({j \in Frames : Before(j, i)}) + 1

P == INSTANCE Playback WITH
        length <- Cardinality(Frames),
        repeat <- autoRepeat,
        cursor <- Cardinality(Frames \ cursor) + 1,
        shown  <- IF fetched = 0 THEN 0 ELSE Rank(fetched)

\* The player is the cursor over numbered frames that the provider takes it for.
ImplementsPlayback == P!Spec
=============================================================================
