----------------------------- MODULE CommandWire -----------------------------
(***************************************************************************)
(* What becomes of a command between the extension and the phone:          *)
(* arguments (core/remote_camera.cpp, core/capture_profile.cpp), the       *)
(* helper's reading of them (reashoot_mac.cpp), the JSON of the command    *)
(* (core/control_protocol.cpp); and, the other way, of a recording:        *)
(* JSON, a line of output, its fields (core/helper_output_parser.cpp), the *)
(* arguments of the download.  A field that is not there reads as "".      *)
(* And what Encodings makes of its bytes on the way: each operation is a   *)
(* use of one of them, with one input.                                     *)
(***************************************************************************)
EXTENDS Encodings

CONSTANTS
  Ordinary,    \* characters that mean nothing to a command line
  Paths,       \* of the helper's program
  Arguments,   \* that it is given
  Bytes,       \* of the files that are hashed
  Files,
  Buffers,     \* sizes of the buffer that a file is read through
  Lengths,     \* of the messages of the control socket
  Settings,    \* the user's settings
  Recordings   \* records of the phone's list

VARIABLES call, input

wvars == <<call, input>>

(***************************************************************************)
(* The extension: a setting is a record of strings.                        *)
(***************************************************************************)
TokenArguments(s) == <<"--token", s.token>>

CaptureProfileArguments(s) ==
  TokenArguments(s) \o <<"--resolution", s.resolution, "--fps", s.fps,
                         "--orientation", s.orientation, "--aspect", s.aspect,
                         "--lens", s.lens, "--zoom", s.zoom, "--look", s.look>>

\* r is the recording's descriptor, for the commands that are about one.
DownloadArguments(s, r) ==
  <<"--http-port", s.httpPort, "--token", s.token, "--recording-id", r.id,
    "--filename", IF r.filename = "" THEN "recording.mov" ELSE r.filename,
    "--byte-count", IF r.byteCount = "" THEN "0" ELSE r.byteCount,
    "--download-path", r.downloadPath, "--download-dir", "movies", "--progress">>
  \o IF r.checksum = "" THEN <<>> ELSE <<"--checksum", r.checksum>>

Extra(s, command, r) ==
  CASE command = "configure"          -> CaptureProfileArguments(s)
    [] command = "start"              -> TokenArguments(s) \o <<"--session", s.session>>
    [] command = "pair"               -> <<"--code", s.code>>
    [] command = "delete-recording"   -> TokenArguments(s) \o <<"--recording-id", r.id>>
    [] command = "download-recording" -> DownloadArguments(s, r)
    [] OTHER                          -> TokenArguments(s)

CommandArguments(s, command, r) ==
  <<"helper", command, "--host", s.host, "--port", s.controlPort>> \o Extra(s, command, r)

ArgumentFlags ==
  {"--host", "--port", "--token", "--resolution", "--fps", "--orientation", "--aspect", "--lens",
   "--zoom", "--look", "--http-port", "--recording-id", "--filename", "--byte-count",
   "--download-path", "--download-dir", "--progress", "--checksum", "--session", "--code"}

(***************************************************************************)
(* The helper.                                                             *)
(***************************************************************************)
ValueAfter(args, flag) ==
  LET at == {i \in 1..(Len(args) - 1) : args[i] = flag}
  IN IF at = {} THEN "" ELSE args[(CHOOSE i \in at : \A j \in at : i <= j) + 1]
Or(value, fallback) == IF value = "" THEN fallback ELSE value

\* atoi: what is not a number is 0.
Atoi(v) == CASE v = "24" -> 24 [] v = "30" -> 30 [] v = "60" -> 60 [] OTHER -> 0
IntAfter(args, flag, fallback) ==
  IF ValueAfter(args, flag) = "" THEN fallback ELSE Atoi(ValueAfter(args, flag))

\* atof, in tenths.
Atof(v) == CASE v = "1.0" -> 10 [] v = "2.0" -> 20 [] v = "0.5" -> 5 [] OTHER -> 0
TenthsAfter(args, flag, fallback) ==
  IF ValueAfter(args, flag) = "" THEN fallback ELSE Atof(ValueAfter(args, flag))

CaptureProfileFromArgs(args) ==
  [resolution |-> Or(ValueAfter(args, "--resolution"), "4K"), fps |-> IntAfter(args, "--fps", 30),
   orientation |-> Or(ValueAfter(args, "--orientation"), "auto"),
   aspectRatio |-> Or(ValueAfter(args, "--aspect"), "9:16"),
   lens |-> Or(ValueAfter(args, "--lens"), "wide"), zoomFactor |-> TenthsAfter(args, "--zoom", 10),
   look |-> Or(ValueAfter(args, "--look"), "natural")]

CommandNames ==
  {"pair", "configure", "start", "stop-only", "list-recordings", "delete-recording", "ping",
   "start-preview", "stop-preview", "download-recording"}
CommandType(command) ==
  CASE command = "configure"          -> "configureCapture"
    [] command = "start"              -> "startRecording"
    [] command = "stop-only"          -> "stopRecording"
    [] command = "list-recordings"    -> "listRecordings"
    [] command = "delete-recording"   -> "deleteRecording"
    [] command = "start-preview"      -> "startPreview"
    [] command = "stop-preview"       -> "stopPreview"
    [] command = "download-recording" -> "prepareRecording"
    [] OTHER                          -> command   \* "pair", "ping"

\* The flags without whose values nothing is sent.
Required(command) ==
  {"--host"} \cup CASE command = "pair" -> {"--code"}
                    [] command = "ping" -> {}
                    [] command \in {"delete-recording", "download-recording"} ->
                         {"--token", "--recording-id"}
                    [] OTHER -> {"--token"}

\* The fields that a command fills, and from which flag; a download begins with prepareRecording.
Fields(command) ==
  CASE command = "pair"  -> {"pairingCode"}
    [] command = "start" -> {"token", "sessionID"}
    [] command \in {"delete-recording", "download-recording"} -> {"token", "recordingID"}
    [] OTHER             -> {"token"}
FlagOf(field) ==
  CASE field = "pairingCode" -> "--code"    [] field = "token"       -> "--token"
    [] field = "sessionID"   -> "--session" [] field = "recordingID" -> "--recording-id"

\* The JSON object that is sent; a string that is empty is left out.
JsonObject(type, names, strings, profile) ==
  [k \in {"type"} \cup names \cup (IF profile = <<>> THEN {} ELSE {"captureProfile"}) |->
     CASE k = "type" -> type [] k = "captureProfile" -> profile [] OTHER -> strings[k]]
EncodeCommandJson_KeepsEmpty(type, strings, profile) ==
  JsonObject(type, DOMAIN strings, strings, profile)
EncodeCommandJson(type, strings, profile) ==
  JsonObject(type, {k \in DOMAIN strings : strings[k] # ""}, strings, profile)

CommandForArgs(args) ==
  LET command == args[2]
  IN IF \E f \in Required(command) : ValueAfter(args, f) = "" THEN "refused"
     ELSE EncodeCommandJson(CommandType(command),
            [k \in Fields(command) |-> ValueAfter(args, FlagOf(k))],
            IF command = "configure" THEN CaptureProfileFromArgs(args) ELSE <<>>)

(***************************************************************************)
(* A recording on its way back.  The phone's record has or has not a       *)
(* checksum; byteCount is a number.                                        *)
(***************************************************************************)
StringValue(json, key) == IF key \in DOMAIN json THEN json[key] ELSE ""

RecordingFromJson(json) ==
  [k \in {"id", "filename", "byteCount", "downloadPath", "checksumSHA256"} |-> StringValue(json, k)]

PrintRecording(r) ==
  <<"recording", <<"id", r.id>>, <<"filename", r.filename>>, <<"byteCount", r.byteCount>>,
    <<"downloadPath", r.downloadPath>>>>
  \o IF r.checksumSHA256 = "" THEN <<>> ELSE <<<<"checksum", r.checksumSHA256>>>>

\* The last field of a name counts, and a part without a name is passed over.
ParseFields(line) ==
  LET parts == {i \in 2..Len(line) : line[i][1] # ""}
      names == {line[i][1] : i \in parts}
  IN [n \in names |-> line[CHOOSE i \in parts : line[i][1] = n
                           /\ \A j \in parts : line[j][1] = n => i >= j][2]]

RecordingDescriptorFromFields(f) ==
  [id |-> StringValue(f, "id"), filename |-> Or(StringValue(f, "filename"), "recording.mov"),
   byteCount |-> Or(StringValue(f, "byteCount"), "0"),
   downloadPath |-> StringValue(f, "downloadPath"), checksum |-> StringValue(f, "checksum")]

Descriptor(json) == RecordingDescriptorFromFields(ParseFields(PrintRecording(RecordingFromJson(json))))

(***************************************************************************)
(* What is meant by a command, said of the settings alone.                 *)
(***************************************************************************)
Meant(s, command, json) ==
  LET said == [token |-> s.token, pairingCode |-> s.code, sessionID |-> s.session,
               recordingID |-> json.id]
      about == CASE command = "pair"  -> {"pairingCode"}
                 [] command = "start" -> {"token", "sessionID"}
                 [] command \in {"delete-recording", "download-recording"} -> {"token", "recordingID"}
                 [] OTHER             -> {"token"}
      profile == IF command = "configure"
                 THEN [resolution |-> Or(s.resolution, "4K"), aspectRatio |-> Or(s.aspect, "9:16"),
                       orientation |-> Or(s.orientation, "auto"), lens |-> Or(s.lens, "wide"),
                       zoomFactor |-> IF s.zoom = "" THEN 10 ELSE Atof(s.zoom),
                       fps |-> IF s.fps = "" THEN 30 ELSE Atoi(s.fps), look |-> Or(s.look, "natural")]
                 ELSE <<>>
  IN JsonObject(CommandType(command), {k \in about : said[k] # ""}, said, profile)

\* The phone is told what the user's settings mean, about the recording it has listed,
\* or nothing is sent because something needed is missing.
SaysWhatIsMeant(s, command, json) ==
  LET sent == CommandForArgs(CommandArguments(s, command, Descriptor(json)))
  IN IF s.host = "" \/ (s.token = "" /\ command \notin {"pair", "ping"})
          \/ (command = "pair" /\ s.code = "")
          \/ (command \in {"delete-recording", "download-recording"} /\ json.id = "")
     THEN sent = "refused" ELSE sent = Meant(s, command, json)

(***************************************************************************)
(* The operations.                                                         *)
(***************************************************************************)
Characters == Ordinary \cup {"space", "q", "\\"}

\* The settings that stand before another flag on the command line are no flags themselves.
PlainSettings ==
  \A s \in Settings :
    /\ s.fps \in {"", "24", "30", "60"}
    /\ {s.host, s.controlPort, s.httpPort, s.token, s.resolution, s.aspect, s.orientation, s.lens,
         s.zoom} \cap ArgumentFlags = {}

\* No message is longer than two bytes can say.
ShortMessages == \A n \in Lengths : n <= 65535

ASSUME WireAssumption ==
  /\ Paths \subseteq Seq(Characters) /\ Arguments \subseteq Seq(Characters)
  /\ Files \subseteq Seq(Bytes) /\ Buffers \subseteq Nat \ {0} /\ Lengths \subseteq Nat
  /\ PlainSettings /\ \A r \in Recordings : "id" \in DOMAIN r

WireInit == call = "none" /\ input = <<>>

Uses(name, args) == call' = name /\ input' = args

RunProcess == \E p \in Paths, a, b \in Arguments : Uses("arguments", <<p, <<a, b>>>>)
Sha256File == \E f \in Files, n \in Buffers : Uses("hash", <<f, n>>)
Exchange == \E n \in Lengths : Uses("frame", n)
RunCommand ==
  \E s \in Settings, c \in CommandNames, r \in Recordings : Uses("command", <<s, c, r>>)

WireNext == call = "none" /\ (RunProcess \/ Sha256File \/ Exchange \/ RunCommand)

WireSpec == WireInit /\ [][WireNext]_wvars

\* The helper gets the arguments it was meant to get, a hash is of the file however it was
\* read, a message has the length it was sent with, and the phone is told what the user's
\* settings mean.
ArrivesAsMeant ==
  /\ call = "arguments" => ArgumentsSurvive(input[1], input[2])
  /\ call = "hash" => HashesTheMessage(input[1], input[2])
  /\ call = "frame" => CommandArrivesWhole(input) /\ EventArrivesWhole(input)
  /\ call = "command" => SaysWhatIsMeant(input[1], input[2], input[3])
=============================================================================
