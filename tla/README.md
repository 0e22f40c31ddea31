# A specification of the streaming UDP filter

TLA+ modules, TLC runs and TLAPS proofs for `rtl-streaming-udp-filter`: a
byte-stream hardware block that parses Ethernet/IPv4/UDP frames, forwards the
payload of matching datagrams while the frame is still arriving, and reports one
result record per frame.

One step of every hardware module here is one rising edge of `clk`. Reset is an
edge with `rst_n` low and may come at any time. One step of the host or of the
scripts is what they do between two things that another party, or a kill, can come
between.

## 1. Inventory

| Part | Source | State it keeps | Operations | Modelled in |
|---|---|---|---|---|
| Skid buffer | `rtl/stream_byte_buffer.sv` | output and skid register, two valid flags | one edge: refill, pass through, skid, stall, clear | `StreamByteBuffer` |
| Filter | `rtl/udp_packet_filter.sv` | parser state, header index, payload count and its two early flags, sampled configuration, field registers, pending reason, sequence counter, result record, a skid buffer | one edge per parser state; reset | `UdpPacketFilter` |
| Reason codes | `rtl/udp_packet_filter_reason_codes.svh` | none | nine values | `ReasonCodes` |
| Checks, formal harness | `rtl/udp_packet_filter_checks.sv`, `formal/udp_packet_filter_formal.sv` | frames closed but not reported, "payload ended" | assumptions and assertions | `FilterHarness` |
| Reference model | `sim/reference_model.py` | none | `classify_frame` | `ReferenceModel` |
| Packet builder, test frames | `sim/packet_builder.py`, `sim/frames.py` | none | `build_frame`, directed cases, `random_case` | `TestFrames`, `RandomCases` |
| RTL testbench | `sim/rtl_testbench.py` | counters, handshake and stalls of the cycle before, beats collected | `run_frame` (driver, monitor, scoreboard), `reset_dut` | `RtlTestbench`; back-to-back measurement: `FilterRate` |
| RX FIFO | `fpga/basys3/bram_fifo.sv` | memory, three pointers, registered read | write, read, delayed visibility | `BramFifo` |
| TX FIFO | `fpga/basys3/sync_fifo.sv` | memory, two pointers | write, read | `SyncFifo` |
| UART | `fpga/basys3/uart_rx.sv`, `uart_tx.sv` | bit and clock counters, shift registers, synchronizer | sample, shift | `UartRx`, `UartTx`, `UartLink` |
| Hardware test core | `fpga/basys3/hw_test_core.sv` | command state, configuration, stall level, frame length, reset timer, acknowledge flag, serializer state, LFSR, overflow flag | command parser, input slice, serializer | `HwTestCore`, `BoardHarness`, `CommandStream` |
| Host session | `sim/hw_protocol.py`, `scripts/run_hardware_test.py` | receive buffer, current response, answered frames, place in the plan | `frame_command`, `feed`, batching, timeout, a further session | `HwProtocol`, `BoardHarness`, `HostSession` |
| Scripts | `scripts/run_all.py` and the scripts it runs, `run_vivado.py` | the files in `results/`, `build/` and `formal/`, the manifest | clear, run a step, record it; one action per write of a script | `RunAll` |
| Board top | `fpga/basys3/basys3_top.sv` | - | clocking, LEDs | not modelled |

**How they interact.** A source drives bytes with valid/ready/last. The filter
parses them in place, writes payload bytes into its skid buffer and drives the
payload output from it. When a frame has ended and the buffer has emptied it
raises the result record, and takes no byte of the next frame until the record
is taken. On the board, `hw_test_core` reads commands from a UART through the RX
FIFO, streams each buffered frame through another skid buffer into the filter,
and serializes beats and records back through the TX FIFO. The host compares
what comes back with the reference model. The scripts run the simulator,
the linter, synthesis, place and route and the prover; each leaves files for the
next, some of them where `run_all` does not clear, and `run_all` writes a manifest
that says what they are worth.

**What is hard here.** Three independent parties (source, payload consumer,
record consumer) stall in any pattern and may be reset at any edge. The frame
may end on any byte, also on the ones that decide its reason. Flags are computed
one cycle before they are used. Registers carry over from frame to frame.
Payload leaves before the frame is judged, and the record must not overtake it.
A session may end at any byte and the next one finds the board in the middle of a
command. A script may end before it has written anything, a run may be killed while
it clears the results of another, and a tool may leave nothing: each time an older
file is what the next reader finds. `PROJECT.json` lists each of these at its line,
with the properties that watch it.

**What makes each part correct.**

- Skid buffer: it is a two-place FIFO; nothing lost, duplicated, reordered or
  held back, and `drained` is exact.
- Filter: each frame gets exactly the record the reference model computes from
  all its bytes; what it has forwarded at every moment is what the bytes so far
  entitle to; stalled outputs hold; one record at a time; nothing is lost to a
  stall and every frame is reported.
- FIFOs: they are FIFOs, over every wrap of their pointers; a word of the RX FIFO
  is seen one edge late and never as what a colliding read returned.
- Board: the parser never pops an empty FIFO; a frame reaches the filter back to
  back and is judged by its own command's configuration; what goes out over the
  UART is always a well-formed sequence of answers, none lost and none split.
- Host: a batch never overflows the RX FIFO, each response is that of its own
  frame, and the session gets to its end, whatever the session before has left.
- Testbench: none of its assertions fails in any interleaving of its random gaps,
  stalls and resets, and a random case is of the category it was drawn for, so that
  the coverage goals count what they name.
- Scripts: "pass" is said only of files of this very run, and the manifest is true
  of what is in `results/`, after kills and scripts started by hand too.
- UART: each byte arrives once and unchanged although the two clocks drift.

## 2. Modules

| Module | What it is |
|---|---|
| `StreamByteBuffer` | The skid buffer's registers and what one edge does to them, as operators on the inputs of that edge. |
| `PortTrace` | What a FIFO's ports did on the last edge: the ghost that the abstract and the detailed FIFOs share. |
| `ByteFifo` | Abstract: a synchronous FIFO with ready/valid ports. |
| `LaggedFifo` | Abstract: a `ByteFifo` whose reader sees an item one edge late. |
| `FifoPointers` | Pointers one bit wider than the address: what the two board FIFOs have in common. |
| `SyncFifo`, `BramFifo` | The TX and the RX FIFO, which implement `ByteFifo` and `LaggedFifo`. |
| `FifoLemmas`, `SyncFifoProofs`, `BramFifoProofs` | Arithmetic modulo `2 * DEPTH` and the theorems about the two FIFOs. |
| `BufferHarness` | The skid buffer with free ports, its properties, and the refinement of `ByteFifo`. |
| `BufferProofs` | Theorems about `BufferHarness`. |
| `ReasonCodes` | Values of `result_reason`. |
| `ReferenceModel` | `classify_frame` on a prefix of a frame: the abstract description of what the filter computes. |
| `TestFrames` | Frames for the runs: `build_frame` and the directed cases. |
| `RandomCases` | `random_case`: the set of all frames that the generator may draw for a category. |
| `RtlTestbench` | `FilterHarness` with the monitor and the scoreboard of `run_frame`. |
| `UdpPacketFilter` | The filter: one action per parser state, or per decision within one. |
| `FilterHarness` | The filter in its environment, and its properties. |
| `FilterRate` | The same with a cycle counter, for the timing section of the spec. |
| `FrameService` | Abstract: the filter as the logic around it sees it. `FilterHarness` implements it. |
| `FilterInvariant` | The inductive invariant `IInv`: `ControlInv` and `DataInv`. |
| `FilterProofs` | Theorems about the filter: control, the refinement of `FrameService`, agreement with the reference model, rate and latency, the testbench. |
| `HwTestCore` | The board's command parser, input slice, serializer and FIFOs around a `FrameService`. |
| `HwProtocol` | The byte protocol: commands, answers, and what `ResponseParser` makes of its buffer. |
| `BoardHarness` | `HwTestCore` with the two wires to a host, and what holds under any host. |
| `CommandStream` | `BoardHarness` under commands in any order and at any pace; its properties and its inductive invariant `BoardInv`: `CoreInv` for the frames, `WireInv` for the answers. |
| `HostSession` | `BoardHarness` under the session of `run_hardware_test.py`. |
| `HostInvariant` | Its inductive invariants: `HostInv` for the overflow, `ResponseInv` for the responses. |
| `HwCoreProofs` | Theorems about the board core under any commands and under the host session. |
| `UartTx`, `UartRx` | Transmitter and receiver, per clock edge. |
| `UartLink` | The two over a line, on clocks that drift. |
| `UartProofs` | Its inductive invariant `LinkInv` and the theorem that bytes arrive intact. |
| `RunAll` | `run_all.py` and the scripts: which file holds what of which run. |
| `RunAllProofs` | Its inductive invariant and the theorems about it. |
| `MC*` | Instances for TLC. |

`UdpPacketFilter` owns the buffer's four variables and instantiates
`StreamByteBuffer` on them, as the RTL instantiates `output_buffer`; an edge of
the filter is a step of the parser and an edge of the buffer with what the parser
writes. `FilterHarness` extends it with the environment.

`HwTestCore` is built from the abstract specifications of its parts: `LaggedFifo`
for the RX FIFO, `ByteFifo` for the TX FIFO and `FrameService` for the filter, each
of which the detailed module is shown to implement; the input slice is the real
`StreamByteBuffer`. Bytes enter it where `uart_rx` delivers them and leave it where
`uart_tx` takes them; `UartLink` covers what lies between.

### From the code to the model

- A register is a variable of the same name; the field registers are the record
  `hdr`, the `result_*` registers the record `result`, the three `cfg_*_q`
  registers `cfg_q`.
- A non-blocking assignment is a primed variable. Where a task assigns a register
  that the `case` also assigns, the later one wins, as in the code:
  `create_descriptor(fields, ...)` takes the record with this byte's fields
  already in it.
- Tasks and functions keep their names (`create_descriptor`, `close_reason`,
  `load_payload_count`, `count_payload_byte`, `close_or_wait`).
- Two shapes recur in the header states and have names: `Settle` (this byte
  decides the reason; report now if it is also the last, else drain) and
  `Advance` (go on, but ending here is a truncation).
- 16-bit arithmetic is modulo 65536 and the header index modulo 64. A 24- or
  32-bit register that only moves address bytes is a tuple of bytes.
- `NoHandshake` is every edge on which no branch of the parser's `case` is taken;
  the buffer still moves.
- The source may change a byte it has not got rid of. AXI4-Stream forbids that,
  so the model allows strictly more than the harness assumes.

- FIFO pointers are modulo `2 * DEPTH`. The write port of the memories has no reset,
  so a write on a reset edge changes the memory in the model as in the code, and
  the RX FIFO's read port returns what was there before the write.
- In `HwTestCore` the LFSR is a free choice, each edge, of whether a comparison with
  `stall_level` passes; at level 0 it always does. `result_left` is the length of
  `result_shift`, and of a serialized record only `accept` and the number vary.
- `ResponseParser` is fed byte by byte. `feed` is a loop that consumes complete
  answers from the front of its buffer, so how reads cut the stream makes no
  difference to what it has parsed when a byte has come in.
- `GiveUp` stands for the timeout of `read_until`, an exception and a kill. What the
  operating system has not sent then is lost; had it been sent, the board would see
  the same as when the session had ended later. While no session is active, nobody
  takes what the board sends.
- `NewSession` is `run_hardware_test --skip-program`. It waits for `Silent`: the board
  has answered what it has. Nothing in the code waits for that; the board needs a
  tenth of a second for it at 1 Mbaud, and a new process, which has Python and the
  serial port to open, needs longer.
- In `UartLink` one step is an edge of the receiver's clock, with none, one or two of
  the transmitter's.
- In `RandomCases` a random draw is a choice from a set, payloads and paddings are
  parameters, and a case is a prefix of a frame. The order and the weights of the
  draws are left out.
- `RtlTestbench` has the driver's freedom in `FilterHarness`: gaps, stalls and changes
  of `cfg_*` are free in every cycle, which is more than `RunOptions` draws. `Checks`
  is what the monitor asserts once per cycle, `FrameChecks` what the scoreboard
  asserts when the record is taken, and `failed` remembers a violated assertion.
  `send_prefix` and `reset_dut` are a reset at any point.
- In `RunAll` a file is the set of runs that its content comes from and one bit,
  whether it says that all is well. `Made(inputs, ok)` is content written now from
  those inputs. A tool is a free choice of its exit status and of what it leaves:
  nothing, something of its own, or what was there before. Each script has one action
  per write of a file that is modelled: what a tool leaves, its copy in `raw/` and the
  status or summary made of it are steps of their own (`Simulate`, `Keep`, `Judge`;
  `Synthesize`, `SynthSummary`; `Prove`, `FormalSummary`). A tool's files change
  together, and so does the directory `raw/` when it is cleared; a summary and its
  Markdown twin are one file. `StopEarly` is an end at any of the points between, and
  `Kill` an end of the whole process.

Operators marked `Fault:` are seeded faults, each a variant of the definition
that follows it. They are not part of any specification. Replacing the definition
by its variant makes one property fail (listed in `PROJECT.json`), which shows
that the property depends on that piece of the code.

## 3. Runs

All passing runs explore every reachable state. Deadlock is checked in all but
`pipeline`, where the bound on the runs lets the system stop. Reset is enabled at
every edge, except in `host_session`, which starts from a board that has just been
loaded. Each run takes less than five minutes.

| Run | Question | Bounds |
|---|---|---|
| `buffer` | Is the skid buffer a FIFO under every stall pattern, is `drained` exact, does every beat leave? | one data bit per beat |
| `rtl_testbench` | Does an assertion of the testbench ever fail; has the right amount left at each moment, with the right beats; is each random case what its category says? | the directed and the random frames, each cut at any byte, 4 configurations, one frame per reset |
| `filter_sequence` | Do the interface rules and `IInv` hold across frames; is a record free of what the frame before left; does the filter implement `FrameService`; is every frame reported? | 5 frames, 2 configurations, 3 frames per reset |
| `filter_rate` | Spec section 8: one byte per cycle, gap of one or two cycles, latency one | 4 frames, always-ready consumers |
| `sync_fifo` | Is the TX FIFO a FIFO that is never overfull? | 4 places, one-bit words |
| `bram_fifo` | Is the RX FIFO a FIFO one edge late; is its output always the head; is a collision never shown? | 4 places, one-bit words |
| `command_stream` | Does the board keep its promises, and `BoardInv`, under any commands at any pace, resets and overflow included? | 3 commands of 3 kinds, RX FIFO 8, TX FIFO 1 |
| `host_session` | Does a batch ever overflow; is each response its frame's; does a session that finds the board between two commands get to its end? | 3 frames in 2 batches, RX FIFO 24, TX FIFO 1, 2 sessions, the first cut off anywhere |
| `uart_link` | Does every byte arrive, unchanged, when the clocks drift? | 10 clocks per bit, 3 bytes, drift of 2 clocks either way |
| `pipeline` | Is "pass" said only of files of this run; does anything in `results/` outlive its manifest; is the manifest true? | 2 runs after the committed results, 2 seeds |
| `stall_level` | Violated: is a frame's output stalled at its own level? | as `command_stream` |
| `reset_answers` | Violated: is every reset command answered? | as `command_stream` |

**Why the bounds are enough.** The parser looks at a byte only through a handful
of comparisons (EtherType, version/IHL, total length against the limit, protocol,
fragment bits, the three length rules, port, message type). `TestFrames` has a
frame on each side of each, and at the boundary of the numeric ones; the source
may end each frame at every byte, so every truncation is covered without listing
it. `MAX_LOGICAL_FRAME_BYTES = 48` makes a six-byte payload the longest, which is
two more than the buffer and the three stages of the payload path (first, middle,
last) need. `SEQUENCE_MODULUS` stands for 2^32: the counter is only incremented
and copied, and 2 makes it wrap within three frames. `FRAMES_PER_RESET` bounds
the frames between two resets; two suffice to see every leftover of a frame in
the next one, three let the counter wrap. `rtl_testbench` has one frame per reset
and all of the frames, `filter_sequence` few frames and what one leaves to the next.
`RandomPayloads` has no payload and three bytes, the least that the generator
truncates; the header fields it draws freely are copied and never looked at, so one
set of them is enough.

Four places let the FIFOs' pointers wrap and every distance occur, with `full`
and `empty` at each pointer position. In `command_stream` an RX FIFO of eight
bytes holds less than the longest command, so that it overflows whenever the
parser has to wait; a TX FIFO of one byte is full most of the time, which is
when an acknowledgement, a beat and a record compete. Three commands are enough
for a command to find the one before still being answered and one behind it. In
`host_session` the RX FIFO has exactly the size of a batch, as tight as the
assumption on `BATCH_BYTES` allows, and the whole plan does not fit. A record is
two bytes rather than 20 and the reset lasts two cycles rather than 32: both are
only counted down. `results_sent` keeps its 16 bits in `command_stream`; in
`host_session` it counts modulo 1, since only LEDs show it. Two sessions are enough
for a session to find what another has left; three pass as well, with a shorter
plan (290,000 states). `NoOverflow` is about sessions that get to send frames. A
session cut off in the length field leaves a board that takes the next reset
commands for the length, and may then wait for a frame longer than its FIFO; every
further session adds one byte, gets no acknowledgement and times out, until the FIFO
overflows (12 sessions with an RX FIFO of 9). Only reprogramming the board helps.

In `pipeline`, two runs let each script find what any other, or itself, has left in
another run, on top of the committed results. Three runs pass as well (fourteen million
states, too long for a run of this project), and the theorems of `RunAllProofs` hold
for any number.

In `uart_link`, ten clocks per bit are not a power of two, like the board's 125:
the receiver's count has values it never reaches unless a reset of it is missing.
From the start bit to the stop bit one clock may gain four on the other, which is
as much as the half bit allows once the synchronizer's uncertainty is taken off;
at the board's 125 clocks the same share is above four percent per byte. A glitch is
shorter than half a bit, and a byte follows it only when the receiver has had time
to reject it. `LinkAssumption` states these margins for any number of clocks per bit,
and they are all that the theorem about the link assumes.

**Fairness.** Safety properties rest on none. `filter_sequence` assumes that the clock runs,
that a source which has begun a frame offers its next byte again and again, and
that each consumer is ready again and again (`SourceStep`, `OutputStep`,
`ResultStep`). The spec asks exactly that of the environment: section 9 says that
without a last byte the block waits for ever, and sections 6 and 7 let a consumer
stall for as long as it likes. `buffer` assumes weak fairness of an edge with
`m_ready` high while a beat waits. `host_session` assumes that the host and the
clock run, that the line delivers what was written and takes what is queued, and
that a stalled output is let pass again and again: the LFSR is maximal-length, so it
passes the all-ones byte, which no stall level stops, in every period. A session may
give up but never has to: that it gets to its end is said of those that are not
killed, so a session that only the timeout could end would be a counterexample. A
session that finds the board in the middle of a command does need the timeout, and
nothing is said of its end. `uart_link`
assumes that the two clocks tick together again and again, which two oscillators of
nearly the same frequency do.

**Findings.** Both are places where the documentation promises more than the code
does; neither affects the host script as it stands.

- `stall_level`: `hw_protocol.py:8-9` says that the level applies to "this frame". The
  register is overwritten when the next command's header is read
  (`hw_test_core.sv:108`), while the frame's payload and record may still be on
  their way out. The tests check answers, not stalls, so they cannot see it.
- `reset_answers`: `hw_protocol.py:4` says that the board answers a reset command.
  `ack_pending` is one flag (`hw_test_core.sv:127`), so two commands that complete
  before the serializer is free share one answer. The host only ever sends one and
  waits.

## 4. Proofs

Proved by TLAPS for every value of the constants: any length limit of at least 42,
any sequence modulus, any set of non-empty frames of any length and content, any
configurations, any subset of consumer behaviours; any FIFO depth that is a power of
two above one, any words.

**Skid buffer** (`BufferProofs`). Type correctness; the skid register is only used
behind a full output register; `drained` is exact; and the refinement of `ByteFifo`: the queue is
`Contents`, the registers read oldest first, and each of the buffer's four
branches is one `Transfer`. `NoHole` is what makes the refinement inductive.

**Filter** (`FilterProofs`). The properties are not inductive
by themselves. `IInv` adds what each parser state knows, in two layers.

`ControlInv` is about counters and flags:

- `StateFollowsFrame`: the state is a function of the frame's progress (idle iff
  no byte accepted, waiting or holding iff the last byte was).
- `LengthsLatched`: at byte 41 the registered check still speaks of the
  registers. Without it `udp_length - 8` could wrap and a payload state be
  entered with nothing to expect.
- `PayloadExpected`: payload states have payload outstanding.
- `BufferFollowsState`: which states may find a beat in the buffer, and that no
  "last" beat is behind or before another.
- `FlagsMatchCount` and `AcceptIsReason`.

`ParserMoves` says where an edge takes the parser and `ParserMovesBuffer` what it
writes meanwhile, one case per action; `BufferEdges` says what the buffer does with
it; each conjunct follows from those in a lemma of its own; `ControlHolds` joins
them. From it: `TypeCorrect`, `FlagsCorrect`, `RecordsAccountedFor`, `RecordsPrompt`,
`PayloadsTerminate`, the action properties `InputWaits` and `StalledOutputs`, and
`ServiceImplemented`: every edge of the filter is an edge of `FrameService`, with
`phase`, `payload` and `beats` read off the parser state and the buffer.

`DataInv` ties the registers to the bytes that came in: each field register is what
the reference model reads at its offset as soon as those bytes are there, the
pending reason is `classify_frame` of the prefix once it is decided, and no reason
of higher priority can still come; what has left through the payload port, with what
is in the buffer, is what the prefix entitles to. The step is a case per header byte:
`header_index` says which byte it is, and the reference model at that length differs
from the one before only in the field that ends there. `InvariantHolds` is the whole;
its consequences are `RecordsMatchReference`, `PayloadsCutThrough` and `BeatsMatch`,
and, because every assertion of the testbench is one of these or an interface rule,
`TestbenchPasses` for `RtlTestbench`.

The timing theorems (`NoStallWithinFrames`, `GapsBetweenFrames`,
`PayloadsWaitOneCycle`) are about `FilterRate`, under the hypothesis that both
consumers are always ready (`OutReady = {TRUE}`, `ResultReady = {TRUE}`), which is the
condition that section 8 of the spec states them under and that the run has.

**FIFOs** (`FifoLemmas`, `SyncFifoProofs`, `BramFifoProofs`). The lemmas are about
arithmetic modulo `2 * DEPTH` (what a distance becomes when either pointer moves, when
two addresses differ) and about the sequence of words between two pointers (one
more, one less, kept by a write outside it). For the TX FIFO, a count within the
depth is inductive, and each edge is a `Transfer`. For the RX FIFO the invariant
`FifoInvariant` adds that the visible pointer lags the write pointer by at most
one word, and that `rd_data` is the head whenever the FIFO is not empty. The key
step is that the read port, addressed after the pop, meets a write of the same edge
only if nothing is visible afterwards (`FetchAvoidsWrite`), which gives
`BramCollisionIsNotShown`. The two refinements follow.

**Board core** (`HwCoreProofs`), for every depth of the FIFOs, any length of a record
and of a reset, and any commands: what enters the RX FIFO is only required to be bytes
(`CommandsAssumption`), so overflow and cut-off commands are covered.

- The command parser never starves while it streams (`StreamAlwaysFed`). That is
  inductive once the length registers are known to be numbers and the parts of the RX
  FIFO sequences (`ParserInvariant`): `FifoMoves` says that an edge takes at most the
  head of what the parser sees, and only when it pops, and `ParserStep` goes through
  the parser's states.
- `CoreInv` is about frames on their way through parser, input slice and filter. The
  three are described by their moves (`ParserCases`, `SliceCases`, `FilterMoves`), and
  the invariant says how they fit: while the parser has more of a frame, or the
  filter is inside one, the slice is not empty (`SliceFollowsParser`), and the frames
  of which the filter has seen nothing are, place by place, the commands still owed
  (`OwedFollowsSlice`). A frame that the parser is done with but the filter has not
  begun has at most two bytes: that is why the next header can overwrite the
  configuration without harm. From it: `BoardTypeCorrect`, `FramesBackToBack`,
  `ConfigurationsMatch`.
- `WireInv` is about answers on their way to the host: what is in the parser's buffer,
  the TX FIFO and the serializer is the encoding of the outstanding answers, and the
  buffer never has a whole one. `SerializerSends` gives, for each of the serializer's
  moves, the byte it sends and the answer it has been given; `OldestAnswer` that a
  prefix as long as its tag says is the first answer; `WireStep` joins the two. The
  encoding of a sequence of answers is a recursive function of the library
  (`FlattenSeq`). What it does with a sequence that is longer at either end
  (`FlattenLast`, `FlattenFirst`) is shown from the least length at which it would
  fail, which needs only that `<` is well founded on the naturals. From it:
  `AnswersArrive`.

**Host session** (also `HwCoreProofs`, which needs the board's lemmas), for any plan whose
frames the host can send (`PlanAssumption`: `frame_command` refuses the others), any
`BATCH_BYTES` up to the depth of the RX FIFO and any number of sessions, each of which
may end after any byte. That the FIFO does not overflow is far from inductive: it holds
because the host writes a batch only when every earlier frame has been answered, and so
rests on what the whole board does with the frames. `HostInv` joins three things.

- `ReadsTheBatch`: what is written and not read (`Unread`: the line, the byte on its
  way into the FIFO, the FIFO) is, byte for byte, the rest of the batch from the byte
  on that the parser waits for. Which command that is (`ParserFrame`) is counted from
  the other end: responses the host has, records on their way to it, and the frames in
  the filter and in the slice. So, when the host has as many responses as it sent
  frames, nothing is unread, and the next batch fits (`BatchFits`).
- `ResetIsCommand` and `ResetIsData`: a session begins with one byte, which the parser
  reads as a reset command or, if an earlier session was cut off, as part of an
  unfinished command. In the first case the reset or its acknowledgement is in exactly
  one place; in the second there is no acknowledgement, so the session never gets to
  "reading". `StaysIdle`, `ResetIsRead`, `AckIsOnlyAnswer` and `ResetStaysCommand` are
  its steps.
- `WireInv` and the invariants of the board under any host, which are proved once, for
  any byte that comes in.

`HostState` gives what one edge of the board does to all of this, `ParserReads` and
`ParserFrameMoves` how far the parser gets, `BatchIsAnswered` and `BatchIsWritten` the
end of a batch and the start of the next; `SessionInvHolds` joins the actions.
From it: `BatchesFit`. The run `host_session` with `HostInv` for its invariant visits
200,000 states and finds it true, which is how it was found.

That each response is its own frame's (`ResponsesMatchFrames`) needs more than the number
of frames on their way: it needs to know which bytes. `ResponseInv`, on top of `HostInv`,
gives each of them its place `<<k, j>>` in the plan, byte j of the k-th frame.

- `SliceMatches`: the slice holds the bytes between the place where the parser streams
  (`ParserPlace`) and the one where the filter goes on.
- `AnswersMatch`: the answers on their way (`Outgoing`: the beats that the host has of a
  frame, the outstanding answers, the beat in the filter's buffer) follow each other as
  the bytes of one frame, its record, and the next frame do, and the oldest one is about
  the frame that the host is at. The places are existentially quantified functions, so
  the prover has to be given new ones for each step (`AnswersGrow` extends them,
  `AnswersTaken` lets the host move on in them).
- `FilterGoesOn`: the filter takes up where the answers end; what it may hold back or
  drop is what `FrameService` allows (`FilterTurns`).
- `Numbers`: the sequence counter is the number of the frame the filter is in, which
  after a reset command is the first one (`Restarting`), whatever ran before.

`BytesMove` joins what the parser, the slice, the filter, the serializer and the host do
in one edge, and `ResponsesGoOn` adds the record that completes a response: its beats are
a run of the frame's bytes (`RunOfFrame`), with "last" on the last one (`ResponseChecks`).
From it: `ResponsesMatch`. TLC cannot enumerate the functions of `BytesOnTheirWay`; the
run was made with the witnesses that the frames of `MCPlan`, whose bytes are all
different, determine.

**UART** (`UartProofs`), for any number of clocks per bit above two, any drift of
either clock, within a byte, of less than half of what is left of a bit behind its
middle (`2 * SKEW < CLKS_PER_BIT - CLKS_PER_BIT \div 2`; 31 clocks of 1250 on the board), glitches of up to
half a bit, and any bytes in any order. `WidthAssumption` says that `$clog2` gives a
count that holds `CLKS_PER_BIT` values. Time is counted from the edge that loads a byte,
in the transmitter's clocks (`pos`) and in the receiver's (`elapsed`); they differ by
`skew`. `pos` says what is on the line (`OnLine`), and `elapsed` where the receiver is
(`Receiving`): the edge at which it noticed the start bit is known up to `SKEW + 1`
clocks, and from then on its state and count are a function of the time. `Sampled` says
which bit the synchronizer holds at a time, whatever the drift was, and `MiddleSample`
that the edge of each sample is such a time. `LinkInv` has two more parts: the line at
rest, where the receiver may still be in the stop bit (`Resting`; a byte that follows at
once finds it there: `Late`), and the time after a glitch (`Glitching`), in which the
glitch is over before the start bit is checked. From it: `BytesArrive`.

**Scripts** (`RunAllProofs`), for any number of runs and any seeds. That "pass" is
earned is not inductive: that the evidence is there rests on
`ManifestAccountsForFiles`, that it is of this run alone on
`NothingOlderThanManifest`, and both on what a script has established at each point
of its course (`StageOK`: for instance that the simulator's results file, when
it is copied, was left by this simulation, because an older one was deleted before it).
`HasOrigin` and `DriverOK` tie content and manifest to the runs started. The steps
share one shape: `DisciplinedStep` shows that a script keeps the invariant if it
writes only files of its own step (`OwnFiles`) and only content whose origin the
manifest knows (`KnownContent`); what is left for each script is to show that, and
`StageOK`. A kill needs nothing more, which is the point: no property rests on a
script coming to its end. Consequences: `PassHasItsEvidence`, `ResultsAreFresh`,
`ManifestIsAccurate`.

**Only model-checked.** The categories of the random cases (`CasesAreWhatTheySay`, a
statement about the frames drawn rather than about steps) and the liveness properties:
liveness under fairness and ENABLED are out of the prover's reach. The proofs about the
session go through the specifications of its parts (`LaggedFifo`, `ByteFifo`,
`FrameService`), which the detailed modules are proved to implement; the two steps are
not put together into one theorem about the whole board.

## 5. Not modelled

- The `default:` branch of the parser's `case`: `TypeCorrect` shows that no other
  state value is reachable.
- Outputs while `rst_n` is low. They are combinationally low; the harness treats
  an edge with `rst_n` low as a step in which nothing is transferred.
- Unknown (X) values before the first reset: the initial state is the reset state.
- `padding_length` and `logical_frame_length` of the reference model, which only
  the coverage report uses.
- A session that starts while the board still answers an earlier one. Its parser may
  then begin in the middle of an answer, and a data byte may pass for the
  acknowledgement; the code has no guard against it and nothing promises one. The
  pick of frames by `test_plan`, and the comparison of the record's other fields.
- The `default:` branches of the board's state machines, and the LFSR's sequence.
- `check_ready_isolation` of the testbench, which changes `m_axis_tready` within a
  cycle and looks at `s_axis_tready`: in the model the latter is no function of the
  former, so there is nothing to check. Its limit of 20000 cycles per frame, the
  counting of `sim/coverage.py`, and `test_reference_model.py`, which checks constants
  of the reference model.
- `basys3_top`: an MMCM, a reset synchronizer and four LEDs around `hw_test_core`, with
  no protocol state. The unknown of its reset is that of `Reset` at any edge.
- Of the scripts: what a file says beyond pass or fail; the source hash, which is
  taken before the first step; two scripts at work at once, against which nothing
  guards; files half written; the CI job around `run_all`; how commands of the tools
  are put together; `render_waveforms` beyond the file it writes.
- `write_report` of `run_hardware_test.py` and its `--skip-build`, which may pair a
  bitstream with the timing summary of a newer build: no other script reads the report.

## 6. Plan

Done: the buffer, the filter with its invariant, its agreement with the reference
model, its refinement of `FrameService` and its timing, both board FIFOs with their
refinement proofs, the board core with its invariant under free commands, sessions that
end anywhere and start again with the proof that their batches fit and each response is
its frame's, the UARTs with the proof of their link, the testbench with its random generator, and
the scripts with their invariant and proofs.

Left: the LFSR, that each comparison passes in every period, so that the fairness of
`host_session` rests on the code.
