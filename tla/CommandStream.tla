--------------------------- MODULE CommandStream ---------------------------
(***************************************************************************)
(* BoardHarness with a host that sends commands as fast or as slowly as    *)
(* the UART allows and in any order, without waiting for answers, and that *)
(* reads the answers with ResponseParser.  The board may be reset at any   *)
(* edge, in the middle of a command too, after which the rest of that      *)
(* command is read as something else; so are the bytes around one that an  *)
(* overflowing RX FIFO drops.                                              *)
(*                                                                         *)
(* Ghosts, with "issued":                                                  *)
(*   owed       frames streamed of which the filter has taken no byte yet, *)
(*              with what their commands said                              *)
(*   in_filter  the frame the filter last took a first byte of             *)
(*   unanswered reset commands carried out and not acknowledged            *)
(***************************************************************************)
EXTENDS BoardHarness

CONSTANTS Commands,         \* the byte strings the host may send
          MAX_COMMANDS      \* bound on their number

ASSUME CommandsAssumption == \A c \in Commands : c \in Seq(Byte) /\ c # << >>

VARIABLES sent_commands, owed, in_filter, unanswered

ghostVars == <<owed, in_filter, issued, unanswered>>
vars == <<coreVars, line, sent_commands, buffer, ghostVars>>

NoFrame == [len |-> 0, cfg |-> ResetConfig, stall |-> 0]

Init ==
  /\ CoreInit
  /\ line = << >> /\ sent_commands = 0 /\ buffer = << >>
  /\ owed = << >> /\ in_filter = NoFrame /\ issued = << >> /\ unanswered = 0

-----------------------------------------------------------------------------

\* The host's UART delivers the next byte of "text", or nothing; "line" is the
\* rest of the command that is being sent.
Texts == IF line # << >> THEN {line}
         ELSE IF sent_commands < MAX_COMMANDS THEN Commands ELSE {}

SendsNothing(in) == in.rx = << >> /\ UNCHANGED <<line, sent_commands>>

SendsByte(in) ==
  \E text \in Texts :
    /\ in.rx = <<Head(text)>>
    /\ line' = Tail(text)
    /\ sent_commands' = IF line = << >> THEN sent_commands + 1 ELSE sent_commands

Follow(in) ==
  /\ LET begun == cmd = "C_WAIT" /\ cmd' = "C_STREAM"
         commanded == [len |-> frame_len, cfg |-> cfg, stall |-> stall_level]
         left == IF FirstByteTaken THEN Tail(owed) ELSE owed
     IN owed' = IF ~filter_rst_n THEN << >>
                ELSE IF begun THEN Append(left, commanded) ELSE left
  /\ in_filter' = IF ~filter_rst_n THEN NoFrame
                  ELSE IF FirstByteTaken THEN Head(owed) ELSE in_filter
  /\ Issues(in)
  /\ unanswered' = unanswered + (IF reset_done THEN 1 ELSE 0) - (IF ack_sent THEN 1 ELSE 0)

Tick ==
  \E byte \in {<< >>} \cup {<<Head(t)>> : t \in Texts},
     pass \in Passes, tx_ready \in TxReady :
    LET in == [rx |-> byte, beat_pass |-> pass, result_pass |-> pass,
               tx_ready |-> tx_ready]
    IN /\ Clock(in)
       /\ SendsNothing(in) \/ SendsByte(in)
       /\ Reads(in)
       /\ Follow(in)

\* The host starts a new session with the board; what it was sending goes on.
Reset ==
  /\ BoardReset
  /\ buffer' = << >> /\ owed' = << >> /\ in_filter' = NoFrame
  /\ issued' = << >> /\ unanswered' = 0
  /\ UNCHANGED <<line, sent_commands>>

Next == Reset \/ Tick

Spec == Init /\ [][Next]_vars

-----------------------------------------------------------------------------
(* Properties. *)

TypeOK ==
  /\ CoreTypeOK
  /\ buffer \in Seq(Byte)
  /\ unanswered \in Nat
  /\ \A i \in DOMAIN owed : owed[i].len \in Word16 \ {0} /\ owed[i].cfg \in Config

\* docs/hardware-test.md, "How it works": a frame is streamed "with valid held
\* high".  However the filter stalls, inside a frame the slice has a byte.
FrameIsBackToBack == phase = "inside" /\ filter_rst_n => Slice!m_valid

\* The filter judges a frame by the configuration of its own command, although
\* the parser goes on to the next command's header while up to two bytes of
\* the frame are in the slice.  Shorter frames are reported as truncated under
\* any configuration, so they are left out.
ConfigIsCommands == phase # "idle" /\ filter_rst_n /\ in_filter.len > 2 => sampled = in_filter.cfg

\* What is on its way from the filter's ports to the host (serializer, TX
\* FIFO, the parser's buffer) is exactly the encoding of the answers that are
\* outstanding: an acknowledgement or a stall never splits one, none is lost,
\* and the host never meets an unexpected byte.
AnswersOnWire ==
  /\ buffer \o tx_queue \o InSerializer = Protocol!EncodeAll(issued)
  /\ buffer # << >> => ~Protocol!unexpected(buffer)

\* hw_protocol.py:8-9, "for this frame": the stall level that throttles the
\* filter's outputs is that of the frame whose output it is.
StallIsCommands == m_tvalid \/ result_valid => stall_level = in_filter.stall

\* hw_protocol.py:4, "reset the filter; board answers": every reset command
\* that was carried out is answered.
EveryResetAnswered == unanswered = IF ack_pending THEN 1 ELSE 0

-----------------------------------------------------------------------------
(* The inductive invariant: how the parser, the slice and the filter fit   *)
(* together (BoardHarness), and which commands the frames in the slice     *)
(* belong to.                                                              *)

Commanded == [len |-> frame_len, cfg |-> cfg, stall |-> stall_level]

Frame == [len : Word16 \ {0}, cfg : Config, stall : Byte]

\* Those frames are the ones owed.  One that the parser has finished with fits
\* into the slice; the one it is streaming is that of the command it has read.
OwedFollowsSlice ==
  /\ owed \in Seq(Frame)
  /\ Len(owed) = Places
  /\ \A i \in 1 .. Len(owed) :
       IF cmd = "C_STREAM" /\ i = Len(owed) THEN owed[i] = Commanded ELSE owed[i].len <= 2
  /\ Streaming /\ owed # << >> =>
       frame_len - remaining = IF skid_valid_q /\ ~out_q.last THEN 2 ELSE 1

\* The frame the filter is in was sampled with its own command's configuration,
\* during a reset too.
SampledFollowsCurrent == phase # "idle" /\ in_filter.len > 2 => sampled = in_filter.cfg

\* A pending acknowledgement is one that is still to be given.
AckIsOwed == ack_pending => unanswered > 0

CoreInv ==
  /\ TypeOK
  /\ line \in Seq(Byte)
  /\ BeatsFollowPhase
  /\ SliceFollowsParser
  /\ OwedFollowsSlice
  /\ SampledFollowsCurrent
  /\ AckIsOwed
  /\ ShiftHasBytes

BoardInv == CoreInv /\ WireInv
=============================================================================
