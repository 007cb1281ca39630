----------------------------- MODULE LogReplay ------------------------------
(***************************************************************************)
(* Replay of a telemetry log (src/telemetry/replay/log_replay.cpp), as a   *)
(* value.  A file is a sequence of the halves of frames: <<i, 1>> is the   *)
(* part of frame i with its header and <<i, 2>> the part with its          *)
(* checksum.  The parser of MAVLINK_COMM_0 outlives the file and is shared *)
(* with the link: it is in no frame, or in the first half of one.  Bytes   *)
(* of another frame that it takes for the rest of its own fail the         *)
(* checksum and are lost with it.                                          *)
(***************************************************************************)
EXTENDS Integers, Sequences, FiniteSetsExt

InNoFrame == 0

NewReplay == [open |-> FALSE, file |-> <<>>, pos |-> 0, playing |-> FALSE]

LoadFails_KeepsPosition(replay) == [replay EXCEPT !.open = FALSE, !.file = <<>>]

(* A file that cannot be opened leaves the old one closed and no more.     *)
LoadFails(replay) == [replay EXCEPT !.open = FALSE, !.file = <<>>, !.pos = 0]

LoadFile_KeepsPosition(replay, file) ==
  [replay EXCEPT !.open = TRUE, !.file = file,
                 !.pos = IF @ > Len(file) THEN Len(file) ELSE @]

LoadFile(replay, file) == [replay EXCEPT !.open = TRUE, !.file = file, !.pos = 0]

Start(replay) == [replay EXCEPT !.playing = @ \/ replay.open]

Pause_KeepsPlaying(replay) == replay

Pause(replay) == [replay EXCEPT !.playing = FALSE]

Seek(replay, pos) == IF replay.open THEN [replay EXCEPT !.pos = pos] ELSE replay

(* QFile::atEnd() is true of a closed file, too.                           *)
AtEnd(replay) == ~replay.open \/ replay.pos = Len(replay.file)

(* mavlink_parse_char(): the state after a half, and whether it completes  *)
(* a frame.                                                                *)
Feed(channel, half) == IF channel = InNoFrame /\ half[2] = 1 THEN half[1] ELSE InNoFrame

Completes(channel, half) == channel # InNoFrame /\ half = <<channel, 2>>

(* readNextMessage(): read on to the end of the next frame, or of the      *)
(* file; `frame' is 0 when none was completed.                             *)
ReadNext(replay, channel) ==
  LET file == replay.file
      last == Len(file)
      at[p \in replay.pos .. last] ==
        IF p = replay.pos THEN channel ELSE Feed(at[p - 1], file[p])
      ends == {p \in replay.pos + 1 .. last : Completes(at[p - 1], file[p])}
      stop == IF ends = {} THEN last ELSE Min(ends)
  IN  [pos |-> stop, channel |-> at[stop],
       frame |-> IF ends = {} THEN 0 ELSE file[stop][1]]

(* The frames that lie whole before position `pos' of a file.              *)
WholeFrames(file, pos) ==
  {file[p][1] : p \in {q \in 2 .. pos : file[q][2] = 2 /\ file[q - 1] = <<file[q][1], 1>>}}
=============================================================================
