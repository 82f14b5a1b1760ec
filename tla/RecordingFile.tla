---------------------------- MODULE RecordingFile ----------------------------
(***************************************************************************)
(* What a recording keeps of the frames that are written to it: from       *)
(* io::recording_writer through the container to io::recording_reader.     *)
(* The container is a library (external).  It gathers messages in a chunk, *)
(* hands a full one to the file and adds a summary when it is closed; a    *)
(* reader without a summary scans the chunks that are whole.               *)
(* An image is its number.  A parameter of the calibration has its own     *)
(* name for a value, so that two that change places are told apart.        *)
(* A definition marked FAULTY is a defect that the property at the end     *)
(* catches; the specification does not use it.                             *)
(***************************************************************************)
EXTENDS Integers, FiniteSets, Sequences, Ordering

CONSTANTS
    Cols, Rows,        \* of the camera's images
    IntLimit,          \* 2^31, scaled down: an int's first value that is too large
    Headers,           \* what a field of a foreign image's header may hold
    MaxImages          \* bound: images handed to a writer

ASSUME RecordingFileAssumption ==
    /\ Cols \in Nat \ {0} /\ Rows \in Nat \ {0}
    /\ IntLimit \in Nat /\ 3 * Cols * Rows < IntLimit
    /\ Headers \subseteq 0..(2 * IntLimit - 1)
    /\ MaxImages \in Nat

VARIABLES
    codec,             \* _options.codec of the writer that made the file, "" for no file
    writing,           \* its _writer is there
    calibrated,        \* calibration_written of its stream
    chunk,             \* the library's messages that are not in the file yet
    stored,            \* the file's messages, chunk after chunk
    lastChunk,         \* how many of them are before its last chunk
    finalized,         \* the summary is in the file
    images,            \* images handed to write_frame(), each with a later timestamp
    accepted,          \* history: those for which it returned true
    readBack           \* what a reader found, of the file or of a foreign one

containerVars == <<chunk, stored, lastChunk>>
recordingVars ==
    <<codec, writing, calibrated, containerVars, finalized, images, accepted, readBack>>

\* kImageCodecs
Codecs == {"jpeg", "raw_bgr8"}

-----------------------------------------------------------------------------
(* Messages *)

Distortion == <<"k1", "k2", "p1", "p2", "k3", "k4", "k5", "k6">>

\* hw::k4a_to_calibration(): the resolution and the field of view follow from these.
DeviceCalibration ==
    [p \in {"fx", "fy", "cx", "cy", "width", "height"}
            \cup {Distortion[i] : i \in DOMAIN Distortion} |-> p]

ZeroCalibration == [p \in DOMAIN DeviceCalibration |-> "0"]

\* d in OpenCV's order of the coefficients, k row by row.
EncodeCalibration(c) ==
    [schema |-> "CameraCalibration", width |-> c["width"], height |-> c["height"],
     d |-> [i \in DOMAIN Distortion |-> c[Distortion[i]]],
     k |-> <<c["fx"], "0", c["cx"], "0", c["fy"], c["cy"], "0", "0", "1">>]

\* Coefficients that are not there are zero; a message without a matrix, or that is
\* no calibration, is a zeroed one.
DecodeCalibration(m) ==
    LET at(i) == IF i <= Len(m.d) THEN m.d[i] ELSE "0"
    IN  IF m.schema # "CameraCalibration" \/ Len(m.k) # 9 THEN ZeroCalibration
        ELSE [fx |-> m.k[1], fy |-> m.k[5], cx |-> m.k[3], cy |-> m.k[6],
              width |-> m.width, height |-> m.height,
              k1 |-> at(1), k2 |-> at(2), p1 |-> at(3), p2 |-> at(4),
              k3 |-> at(5), k4 |-> at(6), k5 |-> at(7), k6 |-> at(8)]

\* encode_frame(): a raw image's rows are packed.
EncodeFrame(image) ==
    IF codec = "jpeg" THEN [schema |-> "CompressedImage", pixels |-> image]
    ELSE [schema |-> "RawImage", encoding |-> "bgr8", width |-> Cols, height |-> Rows,
          step |-> 3 * Cols, size |-> 3 * Cols * Rows, pixels |-> image]

Undecodable == -1

ToInt(unsigned) == IF unsigned < IntLimit THEN unsigned ELSE unsigned - 2 * IntLimit

\* decode_raw_frame(): a header is believed only as far as its data goes.
RawFits(m) ==
    /\ m.encoding = "bgr8"
    /\ ToInt(m.width) > 0 /\ ToInt(m.height) > 0
    /\ m.step >= 3 * m.width
    /\ m.size >= m.step * m.height

\* decode_frame(): by the stream's codec, whatever the message holds.
DecodeFrame(c, m) ==
    IF \/ c = "jpeg" /\ m.schema = "CompressedImage"
       \/ c = "raw_bgr8" /\ m.schema = "RawImage" /\ RawFits(m)
    THEN m.pixels ELSE Undecodable

-----------------------------------------------------------------------------
(* The reader *)

\* recording_reader::open() and playing it through.  An image channel without a codec
\* that is known is skipped, and without a camera stream the open fails.
Read(f) ==
    LET message(i) == f.messages[i]
        image(i) == DecodeFrame(f.codec, message(i).payload)
        on(topic) == {i \in DOMAIN f.messages : message(i).topic = topic}
        decoded == {i \in on("image") : image(i) # Undecodable}
    IN  [file |-> f,
         opens |-> f.channels # {} /\ f.codec \in Codecs,
         calibration |-> IF on("calibration") = {} THEN ZeroCalibration
                         ELSE DecodeCalibration(message(InOrder(on("calibration"))[1]).payload),
         frames |-> [k \in 1..Cardinality(decoded) |-> image(InOrder(decoded)[k])]]

NotRead == [opens |-> FALSE]

\* The file as it is: its channels stand in the first chunk and in the summary.
OwnFile ==
    [own |-> TRUE, codec |-> codec,
     channels |-> IF finalized \/ stored # <<>> THEN {"image", "calibration"} ELSE {},
     messages |-> stored]

\* Another program's: one image under any codec's name, with any header.
ForeignFiles ==
    {[own |-> FALSE, codec |-> c, channels |-> {"image"},
      messages |-> <<[topic |-> "image", payload |-> m]>>] :
        c \in {"raw_bgr8", "png"},
        m \in [schema : {"RawImage"}, encoding : {"bgr8", "mono8"}, pixels : {0},
               width : Headers, height : Headers, step : Headers, size : Headers]}

-----------------------------------------------------------------------------
RecordingInit ==
    /\ codec = "" /\ writing = FALSE /\ calibrated = FALSE
    /\ chunk = <<>> /\ stored = <<>> /\ lastChunk = 0 /\ finalized = FALSE
    /\ images = 0 /\ accepted = <<>>
    /\ readBack = NotRead

\* open() and add_camera_stream().
CreateFile(c) ==
    /\ ~writing
    /\ codec' = c /\ writing' = TRUE /\ calibrated' = FALSE
    /\ chunk' = <<>> /\ stored' = <<>> /\ lastChunk' = 0 /\ finalized' = FALSE
    /\ images' = 0 /\ accepted' = <<>>
    /\ readBack' = NotRead

\* A chunk that is full goes to the file, a calibration alone does not fill one.
Store(messages) ==
    \/ chunk' = chunk \o messages /\ UNCHANGED <<stored, lastChunk>>
    \/ /\ \E i \in DOMAIN messages : messages[i].topic = "image"
       /\ chunk' = <<>>
       /\ stored' = stored \o chunk \o messages /\ lastChunk' = Len(stored)

CalibrationMessages ==
    IF calibrated THEN <<>>
    ELSE <<[topic |-> "calibration", payload |-> EncodeCalibration(DeviceCalibration)]>>

ImageMessage(image) == [topic |-> "image", payload |-> EncodeFrame(image)]

WriteSucceeds(image) ==
    /\ writing
    /\ images' = image
    /\ Store(Append(CalibrationMessages, ImageMessage(image)))
    /\ calibrated' = TRUE
    /\ accepted' = Append(accepted, image)
    /\ UNCHANGED <<codec, writing, finalized, readBack>>

\* The library does not take the calibration, or the image is not encoded or not
\* taken: then the calibration is there already.
WriteRefused(image) ==
    /\ writing
    /\ images' = image
    /\ \/ calibrated = FALSE /\ UNCHANGED <<calibrated, containerVars>>
       \/ Store(CalibrationMessages) /\ calibrated' = TRUE
    /\ UNCHANGED <<codec, writing, finalized, accepted, readBack>>

\* close(), the destructor's too: the last chunk and the summary.
FinishFile ==
    /\ writing
    /\ chunk' = <<>>
    /\ stored' = stored \o chunk
    /\ lastChunk' = IF chunk = <<>> THEN lastChunk ELSE Len(stored)
    /\ finalized' = TRUE /\ writing' = FALSE
    /\ UNCHANGED <<codec, calibrated, images, accepted, readBack>>

\* The process ends without close(): the gathered chunk is lost, and the last one in
\* the file may be cut short.
Killed ==
    /\ writing
    /\ chunk' = <<>>
    /\ stored' \in {stored, SubSeq(stored, 1, lastChunk)}
    /\ writing' = FALSE
    /\ UNCHANGED <<codec, calibrated, lastChunk, finalized, images, accepted, readBack>>

ReadFileWithSummary ==                                          \* FAULTY
    /\ ~writing /\ codec # ""
    /\ readBack' = Read([OwnFile EXCEPT !.channels = IF finalized THEN @ ELSE {}])
    /\ UNCHANGED <<codec, writing, calibrated, containerVars, finalized, images, accepted>>

\* The file is opened with or without a summary.
ReadFile ==
    /\ ~writing /\ codec # ""
    /\ readBack' = Read(OwnFile)
    /\ UNCHANGED <<codec, writing, calibrated, containerVars, finalized, images, accepted>>

ReadForeignFile ==
    /\ codec = "" /\ readBack = NotRead
    /\ \E f \in ForeignFiles : readBack' = Read(f)
    /\ UNCHANGED <<codec, writing, calibrated, containerVars, finalized, images, accepted>>

\* The frame recorder goes on after an image that was refused.
RecordingNext ==
    \/ \E c \in Codecs : CreateFile(c)
    \/ images < MaxImages /\ (WriteSucceeds(images + 1) \/ WriteRefused(images + 1))
    \/ FinishFile \/ Killed \/ ReadFile \/ ReadForeignFile

RecordingSpec == RecordingInit /\ [][RecordingNext]_recordingVars

-----------------------------------------------------------------------------
(* Properties *)

\* recording_writer.cc:222: the file of a writer that was closed plays every image it
\* accepted, in order; one that was cut short, those of the chunks that got out.
\* Both come with the camera's calibration, as soon as there is an image.
OwnFileSurvives ==
    LET frames == readBack.frames
    IN  /\ readBack.opens = (finalized \/ stored # <<>>)
        /\ finalized => frames = accepted
        /\ \A i \in DOMAIN frames : i \in DOMAIN accepted /\ frames[i] = accepted[i]
        /\ frames # <<>> => readBack.calibration = DeviceCalibration

\* recording_message.cc:147: no header makes the reader look behind the data.
ForeignFileIsChecked ==
    \A m \in {readBack.file.messages[i].payload : i \in DOMAIN readBack.file.messages} :
        (readBack.opens /\ readBack.frames # <<>>) =>
            (m.height - 1) * m.step + 3 * m.width <= m.size

ReadsBackWhatWasWritten ==
    readBack # NotRead =>
        IF readBack.file.own THEN OwnFileSurvives ELSE ForeignFileIsChecked
=============================================================================
