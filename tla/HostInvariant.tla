--------------------------- MODULE HostInvariant ---------------------------
(***************************************************************************)
(* The inductive invariant of NoOverflow: what the host has written and    *)
(* the parser has not read is the rest of the batch, from the byte on that *)
(* the parser waits for, and all of it fits into the RX FIFO.              *)
(***************************************************************************)
EXTENDS HostSession, FiniteSets

Unread == rx_visible \o rx_arriving \o line

\* How many bytes of a command the parser has read.
Position ==
  CASE cmd \in {"C_IDLE", "C_RESET"} -> 0
    [] cmd = "C_PORT_HI" -> 1
    [] cmd = "C_PORT_LO" -> 2
    [] cmd = "C_MSG_EN" -> 3
    [] cmd = "C_MSG" -> 4
    [] cmd = "C_STALL" -> 5
    [] cmd = "C_LEN_HI" -> 6
    [] cmd = "C_LEN_LO" -> 7
    [] cmd = "C_WAIT" -> 8
    [] cmd = "C_STREAM" -> 8 + frame_len - remaining

\* Records among the answers before the n-th.
ResultsBefore(answers, n) == Cardinality({i \in 1 .. n - 1 : answers[i].kind = "result"})
Results(answers) == ResultsBefore(answers, Len(answers) + 1)

\* The frame of the plan that the filter is in or takes next, and the one whose
\* command the parser is in or reads next.
FilterFrame == first + Len(frames) + Results(issued)
ParserFrame == FilterFrame + OneBit(phase # "idle") + Places - OneBit(cmd = "C_STREAM")

ReadsTheBatch ==
  LET k == ParserFrame
      text == Bytes(k, index - 1)
  IN /\ k \in first .. index /\ (k = index => cmd = "C_IDLE")
     /\ cmd # "C_RESET"
     /\ Len(Unread) = Len(text) - Position
     /\ \A i \in 1 .. Len(Unread) : Unread[i] = text[Position + i]
     /\ Len(Unread) <= RX_FIFO_DEPTH
     /\ cmd = "C_LEN_LO" => frame_len \div 256 = Len(Plan[k].frame) \div 256
     /\ cmd \in {"C_WAIT", "C_STREAM"} => frame_len = Len(Plan[k].frame)

\* The reset command of a session is data to the parser, and ends the command
\* that an earlier session has left unfinished at the latest;
Room == IF cmd \in HeaderStates THEN 1
        ELSE IF cmd = "C_WAIT" THEN frame_len
        ELSE IF cmd = "C_STREAM" THEN remaining ELSE 0

ResetIsData ==
  /\ Len(Unread) <= Room
  /\ cmd # "C_RESET" /\ ~ack_pending /\ reset_acks = 0
  /\ \A i \in 1 .. Len(issued) : issued[i].kind # "ack"

\* or a command, and then it or its acknowledgement is in one place.
ResetIsCommand ==
  /\ cmd \in {"C_IDLE", "C_RESET"} /\ phase = "idle" /\ ~out_valid_q
  /\ Unread \in {<< >>, <<CMD_RESET>>} /\ issued \in {<< >>, <<Protocol!Ack>>}
  /\ frames = << >>
  /\ Len(Unread) + OneBit(cmd = "C_RESET") + OneBit(ack_pending)
       + Len(issued) + reset_acks = 1

HostTypes ==
  /\ CoreTypeOK
  /\ line \in Seq(Byte) /\ buffer \in Seq(Byte)
  /\ stage \in {"resetting", "reading", "done", "over"}
  /\ first \in Nat /\ index \in Nat /\ first <= index
  /\ frames \in Seq([beats : Seq(Filter!Beat), result : Filter!Record])
  /\ current \in Seq(Filter!Beat) /\ reset_acks \in Nat

\* Only a command for a frame longer than the FIFO makes it overflow.
Fits ==
  /\ Len(rx_visible) + Len(rx_arriving) <= RX_FIFO_DEPTH
  /\ rx_overflow => cmd = "C_WAIT" /\ frame_len > RX_FIFO_DEPTH

HostInv ==
  /\ HostTypes
  /\ BeatsFollowPhase /\ SliceFollowsParser /\ ShiftHasBytes /\ StreamNeverStarves
  /\ Fits
  /\ ~Active => line = << >>
  /\ Active => WireInv
  /\ stage = "resetting" => first = 1 /\ index = 1 /\ (ResetIsData \/ ResetIsCommand)
  /\ stage = "reading" => first >= 1 /\ index <= Len(Plan) + 1 /\ ReadsTheBatch
  /\ stage = "done" => ~rx_overflow

-----------------------------------------------------------------------------
(* The inductive invariant of ResponsesMatchFrames follows every byte of   *)
(* the plan from the parser to the host.  A place <<k, j>> is byte j of    *)
(* the k-th frame.                                                         *)

Following(at) == IF at[2] < Len(Plan[at[1]].frame) THEN <<at[1], at[2] + 1>>
                                                   ELSE <<at[1] + 1, 1>>

Shows(beat, at) ==
  /\ at[1] \in 1 .. Len(Plan) /\ at[2] \in 1 .. Len(Plan[at[1]].frame)
  /\ beat.data = Plan[at[1]].frame[at[2]]
  /\ beat.last <=> at[2] = Len(Plan[at[1]].frame)

\* The next byte that the parser streams, and the next one that the filter takes.
ParserPlace == <<ParserFrame, IF cmd = "C_STREAM" THEN 1 + frame_len - remaining ELSE 1>>
FilterPlace(j) == <<FilterFrame + OneBit(phase \in {"ended", "record"}), j>>

\* The slice holds the bytes between them.
SliceMatches(j) ==
  LET at == FilterPlace(j)
  IN /\ phase # "inside" => j = 1
     /\ out_valid_q => Shows(out_q, at)
     /\ skid_valid_q => Shows(skid_q, Following(at))
     /\ ParserPlace = IF ~out_valid_q THEN at
                      ELSE IF ~skid_valid_q THEN Following(at)
                      ELSE Following(Following(at))

\* Answers that the host has not made a response of yet, oldest first.
AsAnswers(s) == [i \in DOMAIN s |-> Protocol!PayloadBeat(s[i])]
Outgoing == (AsAnswers(current) \o issued) \o AsAnswers(beats)

\* The i-th of them is about frame k[i]; if it is a beat, with byte j[i].
Matches(answer, k, j) ==
  CASE answer.kind = "beat" -> /\ k \in 1 .. Len(Plan) /\ j \in 1 .. Len(Plan[k].frame)
                               /\ answer.beat.data = Plan[k].frame[j]
    [] answer.kind = "result" -> answer.record.sequence = (k - 1) % SEQUENCE_MODULUS
    [] OTHER -> FALSE

Connects(answers, k, j, i) ==
  IF answers[i].kind = "result" THEN k[i + 1] = k[i] + 1
  ELSE /\ k[i + 1] = k[i]
       /\ IF answers[i + 1].kind = "beat" THEN ~answers[i].beat.last /\ j[i + 1] = j[i] + 1
                                          ELSE answers[i].beat.last

HostFrame == first + Len(frames)

AnswersMatch(answers, k, j) ==
  /\ \A i \in 1 .. Len(answers) : Matches(answers[i], k[i], j[i])
  /\ \A i \in 1 .. Len(answers) - 1 : Connects(answers, k, j, i)

\* The parser of the host has a run of one frame's bytes.
CurrentMatches(k, j) ==
  \A i \in 1 .. Len(current) : k[i] = HostFrame /\ j[i] = j[1] + i - 1

\* The filter goes on where the answers end.
FilterGoesOn(answers, k, j, next) ==
  LET n == Len(answers)
  IN /\ FilterFrame = IF n = 0 THEN HostFrame
                      ELSE k[n] + OneBit(answers[n].kind = "result")
     /\ payload = "none" => n = 0 \/ answers[n].kind = "result"
     /\ payload = "closed" => n # 0 /\ answers[n].kind = "beat" /\ answers[n].beat.last
     /\ payload = "open" =>
          /\ phase = "inside"
          /\ n # 0 /\ answers[n].kind = "beat" => ~answers[n].beat.last /\ next = j[n] + 1

Numbers ==
  /\ sequence = (FilterFrame - 1 + OneBit(phase = "record")) % SEQUENCE_MODULUS
  /\ phase = "record" => record.sequence = (FilterFrame - 1) % SEQUENCE_MODULUS

BytesOnTheirWay ==
  \E next \in Nat, k, j \in [Nat -> Nat] :
    /\ SliceMatches(next)
    /\ AnswersMatch(Outgoing, k, j)
    /\ Outgoing # << >> => k[1] = HostFrame
    /\ CurrentMatches(k, j)
    /\ FilterGoesOn(Outgoing, k, j, next)

\* While the host waits for the acknowledgement, it has no beat of a frame; and
\* when the filter is out of its reset, its first record will be number 0.
Restarting == current = << >> /\ (cmd = "C_IDLE" /\ Unread = << >> => sequence = 0)

\* Relative to HostInv.
ResponseInv ==
  /\ stage = "resetting" => ResetIsData \/ (ResetIsCommand /\ Restarting)
  /\ stage = "reading" => ~ack_pending /\ Numbers /\ BytesOnTheirWay
  /\ ResponsesMatchFrames
=============================================================================
