---------------------------- MODULE HostSession ----------------------------
(***************************************************************************)
(* BoardHarness with run_tests of scripts/run_hardware_test.py: the host   *)
(* resets the filter and waits for the acknowledgement, then sends its     *)
(* plan in batches and waits for the answers to each batch before the next *)
(* one.  Answers go through ResponseParser byte by byte.                   *)
(*                                                                         *)
(* A session may end at any moment, because read_until has timed out or    *)
(* the process is killed.  The first one finds the board just loaded, the  *)
(* later ones (--skip-program) find it as the one before has left it, also *)
(* in the middle of a command.                                             *)
(***************************************************************************)
EXTENDS BoardHarness

CONSTANTS Plan,           \* a sequence of [frame, cfg, stall]
          BATCH_BYTES,    \* 3800
          MAX_SESSIONS    \* bound on "sessions"

MAX_FRAME_BYTES == RX_FIFO_DEPTH - 8

\* frame_command refuses other lengths, and one that two bytes do not hold.
Sendable(plan) ==
  /\ plan \in Seq([frame : Seq(Byte), cfg : Config, stall : Byte])
  /\ \A i \in DOMAIN plan :
       Len(plan[i].frame) \in 1 .. MAX_FRAME_BYTES /\ Len(plan[i].frame) \in Word16

ASSUME PlanAssumption == Sendable(Plan)
ASSUME BatchAssumption == BATCH_BYTES \in 0 .. RX_FIFO_DEPTH

ASSUME SessionsAssumption == MAX_SESSIONS \in Nat \ {0}

VARIABLES sessions,       \* started since the board was loaded
          stage,          \* "resetting", "reading" answers, "done", or "over"
          first, index,   \* the batch is Plan[first .. index - 1]
          current,        \* ResponseParser: the beats of _current,
          frames,         \*   the responses in frames from "first" on,
          reset_acks      \*   and reset_acks; _buffer is "buffer"

hostVars == <<sessions, stage, line, first, index,
              buffer, current, frames, reset_acks, issued>>
systemVars == <<coreVars, hostVars>>

HostInit ==
  /\ CoreInit
  /\ sessions = 1 /\ stage = "resetting" /\ line = <<CMD_RESET>>
  /\ first = 1 /\ index = 1
  /\ buffer = << >> /\ current = << >> /\ frames = << >> /\ reset_acks = 0
  /\ issued = << >>

-----------------------------------------------------------------------------
(* The host. *)

Command(k) == Protocol!frame_command(Plan[k].frame, Plan[k].cfg, Plan[k].stall)

Bytes(from, to) ==
  Protocol!Sequence!FlattenSeq([k \in 1 .. to - from + 1 |-> Command(from + k - 1)])

\* Fault: the whole plan is one batch.
EverythingAtOnce(from) == Len(Plan)

\* The batch that starts at "from" takes what fits, and at least one frame.
BatchEnd(from) ==
  CHOOSE n \in from .. Len(Plan) :
    /\ n = from \/ Len(Bytes(from, n)) <= BATCH_BYTES
    /\ n = Len(Plan) \/ Len(Bytes(from, n + 1)) > BATCH_BYTES

WriteBatch ==
  /\ first' = index
  /\ frames' = << >>
  /\ IF index > Len(Plan)
       THEN stage' = "done" /\ UNCHANGED <<line, index>>
       ELSE /\ stage' = "reading"
            /\ line' = Bytes(index, BatchEnd(index))
            /\ index' = BatchEnd(index) + 1
  /\ UNCHANGED <<coreVars, sessions, buffer, current, reset_acks, issued>>

StartTests == stage = "resetting" /\ reset_acks = 1 /\ WriteBatch
NextBatch == stage = "reading" /\ Len(frames) = index - first /\ WriteBatch

Active == stage \in {"resetting", "reading"}

\* An exception or a signal.  What is not on the wire yet is lost; that it is
\* still sent is the same to the board as an end that comes later.
GiveUp ==
  /\ Active
  /\ stage' = "over" /\ line' = << >>
  /\ first' = 1 /\ index' = 1
  /\ buffer' = << >> /\ current' = << >> /\ frames' = << >> /\ reset_acks' = 0
  /\ issued' = << >>
  /\ UNCHANGED <<coreVars, sessions>>

\* The board has said all it has to say, and waits between two commands or for
\* the rest of one.
Silent ==
  /\ rx_arriving = << >> /\ tx_queue = << >>
  /\ (reading_header /\ rxf_empty) \/ (cmd = "C_WAIT" /\ rxf_count < frame_len)
  /\ ~out_valid_q /\ phase = "idle" /\ ser = "S_IDLE" /\ ~ack_pending

\* A new process opens the port, and takes longer to do so than the board needs
\* to fall silent.
NewSession ==
  /\ ~Active /\ sessions < MAX_SESSIONS /\ Silent
  /\ sessions' = sessions + 1
  /\ stage' = "resetting" /\ line' = <<CMD_RESET>>
  /\ first' = 1 /\ index' = 1
  /\ buffer' = << >> /\ current' = << >> /\ frames' = << >> /\ reset_acks' = 0
  /\ issued' = << >>
  /\ UNCHANGED coreVars

\* ResponseParser.feed with the byte that leaves the TX FIFO, if any.
feed(in) ==
  LET answer == Protocol!Answer(Arrived(in))
  IN /\ Reads(in) /\ Issues(in)
     /\ IF ~Parses(in)
          THEN UNCHANGED <<current, frames, reset_acks>>
          ELSE /\ reset_acks' = IF answer.kind = "ack" THEN reset_acks + 1 ELSE reset_acks
               /\ current' = CASE answer.kind = "beat" -> Append(current, answer.beat)
                               [] answer.kind = "result" -> << >>
                               [] answer.kind = "ack" -> current
               /\ frames' = IF answer.kind = "result"
                            THEN Append(frames, [beats |-> current, result |-> answer.record])
                            ELSE frames

\* Nobody listens when the session is over.
Listens(in) ==
  IF Active THEN feed(in) ELSE UNCHANGED <<buffer, current, frames, reset_acks, issued>>

\* One clock edge of the board, with or without a byte from the line.
Inputs == [rx : {<< >>} \cup (IF line = << >> THEN {} ELSE {<<Head(line)>>}),
           pass : Passes, tx_ready : TxReady]

Edge(i) ==
  LET in == [rx |-> i.rx, beat_pass |-> i.pass, result_pass |-> i.pass,
             tx_ready |-> i.tx_ready]
  IN /\ Clock(in)
     /\ line' = IF i.rx = << >> THEN line ELSE Tail(line)
     /\ Listens(in)
     /\ UNCHANGED <<sessions, stage, first, index>>

HostTick == \E i \in Inputs : Edge(i)

HostNext == StartTests \/ NextBatch \/ GiveUp \/ NewSession \/ HostTick

HostSpec == HostInit /\ [][HostNext]_systemVars

\* The host runs; the clock runs; the line delivers what was written; the
\* board's transmitter takes what is queued; and the LFSR lets a stalled output
\* pass again and again.
Receives == line # << >> /\ \E i \in Inputs : i.rx # << >> /\ Edge(i)
Transmits == tx_queue # << >> /\ \E i \in Inputs : i.tx_ready /\ Edge(i)
LetsPass == serializer_free /\ (m_tvalid \/ result_valid)
              /\ \E i \in Inputs : i.pass /\ Edge(i)

FairSpec ==
  /\ HostSpec
  /\ WF_systemVars(StartTests \/ NextBatch) /\ WF_systemVars(HostTick)
  /\ WF_systemVars(Receives) /\ WF_systemVars(Transmits) /\ WF_systemVars(LetsPass)

-----------------------------------------------------------------------------
(* Properties. *)

\* docs/hardware-test.md: "batches that fit the board's 4096-byte RX FIFO".
\* However slowly the board answers, and whatever part of a command an earlier
\* session has left in it, a session that gets to send its frames never finds
\* or makes the FIFO overflow.  (A board left waiting for a frame that is longer
\* than the FIFO takes every later reset command for data; it overflows after as
\* many sessions as the FIFO has places, none of which gets any further.)
NoOverflow == stage \in {"reading", "done"} => ~rx_overflow

\* Every response is that of its own frame, so that the host's check passes: its
\* record has the frame's number, its data is a run of the frame's bytes, and
\* "last" is on the last beat only (hw_protocol.py:94-111).  In a later session
\* too: what the board still answers for an earlier one, because the reset
\* command completes a frame that was cut off, is never taken for an answer.
Runs(frame) == {SubSeq(frame, m, n) : m \in 1 .. Len(frame) + 1, n \in 0 .. Len(frame)}
ResponsesMatchFrames ==
  stage = "reading" =>
    \A k \in DOMAIN frames :
      Protocol!check_response(frames[k], Runs(Plan[first + k - 1].frame),
                     (first + k - 2) % SEQUENCE_MODULUS)

\* read_until never waits in vain: a session that finds the board between two
\* commands gets through its plan, unless it is killed (FairSpec).
SessionCompletes ==
  stage = "resetting" /\ line = <<CMD_RESET>> /\ cmd = "C_IDLE" ~> ~Active
=============================================================================
