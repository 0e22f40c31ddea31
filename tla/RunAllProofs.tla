--------------------------- MODULE RunAllProofs ---------------------------
(***************************************************************************)
(* Proofs about RunAll, for every number of runs and every set of seeds.   *)
(*                                                                         *)
(* PassIsEarned is not inductive: that the evidence is there when run_all  *)
(* says "pass" rests on ManifestAccountsForFiles, that it is of this run   *)
(* on NothingOlderThanManifest, and both on what a script has established  *)
(* at each point of its course (StageOK).                                  *)
(***************************************************************************)
EXTENDS RunAll, TLAPS

TypeOK ==
  /\ run \in Nat
  /\ disk \in [File -> [from : SUBSET (0 .. run), ok : BOOLEAN]]
  /\ manifest \in [run : 0 .. run, status : {"none", "running", "fail", "pass"},
                   steps : 0 .. 6]
  /\ driver \in {"idle", "clearing", "stepping", "alone"}
  /\ script \in Scripts \cup {"none"}

\* What is well comes from some run.
HasOrigin == \A f \in File : disk[f].ok => disk[f].from # {}

ManifestOK ==
  /\ manifest.status = "pass" => manifest.steps = 6
  /\ manifest.status = "fail" => manifest.steps > 0

DriverOK ==
  /\ driver \in {"idle", "clearing"} => script = "none"
  /\ driver = "alone" => script # "none"
  /\ script = "none" => stage = "start"
  /\ driver \in {"clearing", "alone"} => run > 0 /\ manifest.run < run
  /\ driver = "stepping" =>
       /\ run > 0 /\ manifest.run = run /\ manifest.status = "running"
       /\ script # "none" => manifest.steps < 6 /\ script = STEPS[manifest.steps + 1]

\* The points of run_regression and of generate_results.
FromHarness == {"harness", "harness_simulated", "harness_kept", "status"}
ToVersions == {"tool_versions"}
ToWaveforms == {"waveforms"} \cup ToVersions
ToMatrix == {"verification_matrix"} \cup ToWaveforms
ToLatency == {"latency_metrics"} \cup ToMatrix
ToSummary == {"regression_summary"} \cup ToLatency

StageOK ==
  /\ stage = "rtl_simulated" => disk["rtl_xml"].from \subseteq {run}
  /\ stage = "harness_simulated" => disk["harness_xml"].from \subseteq {run}
  /\ stage \in FromHarness => disk["cocotb_junit"].ok
  /\ stage = "status" => disk["harness_junit"].ok
  /\ stage \in ToSummary => \A f \in Inputs : disk[f].ok
  /\ stage \in ToLatency => disk["regression_summary"].ok
  /\ stage \in ToMatrix => disk["latency_metrics"].ok
  /\ stage \in ToWaveforms => disk["verification_matrix"].ok
  /\ stage \in ToVersions => disk["waveforms"].ok
  /\ \A i \in 1 .. 6 :
       stage = "passed" /\ script = STEPS[i] => \A f \in Evidence[i] : disk[f].ok

IInv ==
  /\ TypeOK /\ HasOrigin /\ ManifestOK /\ DriverOK /\ StageOK
  /\ NothingOlderThanManifest /\ ManifestAccountsForFiles

-----------------------------------------------------------------------------
(* The tables. *)

\* The steps are six scripts, each at one place only.
LEMMA StepTable ==
  /\ Len(STEPS) = 6 /\ DOMAIN STEPS = 1 .. 6
  /\ \A i \in 1 .. 6 : STEPS[i] \in Scripts /\ STEPS[i] # "run_vivado" /\ STEPS[i] # "none"
  /\ \A i \in 1 .. 6 :
       /\ STEPS[i] = "run_regression" => i = 1
       /\ STEPS[i] = "run_lint" => i = 2
       /\ STEPS[i] = "run_synth" => i = 3
       /\ STEPS[i] = "run_fpga" => i = 4
       /\ STEPS[i] = "run_formal" => i = 5
       /\ STEPS[i] = "generate_results" => i = 6
<1>1. /\ STEPS[1] = "run_regression" /\ STEPS[2] = "run_lint" /\ STEPS[3] = "run_synth"
      /\ STEPS[4] = "run_fpga" /\ STEPS[5] = "run_formal" /\ STEPS[6] = "generate_results"
  BY DEF STEPS
<1>2. Len(STEPS) = 6 /\ DOMAIN STEPS = 1 .. 6
  BY DEF STEPS
<1>3. \A i \in 1 .. 6 : STEPS[i] \in Scripts
  BY <1>2 DEF Scripts
<1>4. \A i \in 1 .. 6 : i = 1 \/ i = 2 \/ i = 3 \/ i = 4 \/ i = 5 \/ i = 6
  OBVIOUS
<1> QED
  BY <1>1, <1>2, <1>3, <1>4

\* Each file is the evidence of at most one step.
LEMMA EvidenceTable ==
  /\ Evidence[1] = {"regression", "cocotb_junit", "harness_junit"}
  /\ Evidence[2] = {"lint_summary"} /\ Evidence[3] = {"synthesis_summary"}
  /\ Evidence[4] = {"fpga_summary"} /\ Evidence[5] = {"formal_summary"}
  /\ Evidence[6] = Reports \cup {"traces"}
BY DEF Evidence

\* The evidence is in results/ and does not outlive the next run.
LEMMA EvidenceIsCleared ==
  /\ CLEARED \subseteq File
  /\ \A i \in 1 .. 6 : Evidence[i] \subseteq CLEARED
<1>1. \A i \in 1 .. 6 : i = 1 \/ i = 2 \/ i = 3 \/ i = 4 \/ i = 5 \/ i = 6
  OBVIOUS
<1> QED
  BY <1>1, EvidenceTable DEF CLEARED, File, Raw, Summaries, Reports

\* Each file is the evidence of one step only.
LEMMA EvidenceOf ==
  \A i \in 1 .. 6 : \A f \in Evidence[i] :
    /\ f \in {"regression", "cocotb_junit", "harness_junit"} => i = 1
    /\ f = "lint_summary" => i = 2
    /\ f = "synthesis_summary" => i = 3
    /\ f = "fpga_summary" => i = 4
    /\ f = "formal_summary" => i = 5
    /\ f \in Reports => i = 6
    /\ f \notin Build \cup {"generic_stat", "vivado_reports", "vivado_summary"}
<1>1. \A i \in 1 .. 6 : i = 1 \/ i = 2 \/ i = 3 \/ i = 4 \/ i = 5 \/ i = 6
  OBVIOUS
<1> QED
  BY <1>1, EvidenceTable DEF Reports, Build

-----------------------------------------------------------------------------
(* A script at work. *)

Content == [from : SUBSET (0 .. run), ok : BOOLEAN]

\* Content that may be written: well only if it rests on runs that the manifest
\* knows of.
Known(f, content) ==
  /\ content \in Content
  /\ content.ok =>
       /\ content.from # {}
       /\ f \in CLEARED /\ manifest # NoManifest => content.from \subseteq manifest.run .. run

\* The script at work writes no evidence of another step; the traces, which
\* run_regression writes, are also evidence of the last one.
OwnFile(f) ==
  /\ f \in File
  /\ \A i, j \in 1 .. 6 :
       script = STEPS[i] /\ f \in Evidence[j] /\ i # j =>
         script = "run_regression" /\ f = "traces"

Disciplined(W) ==
  /\ disk' \in [File -> Content]
  /\ \A f \in File \ W : disk'[f] = disk[f]
  /\ \A f \in W : OwnFile(f) /\ Known(f, disk'[f])

\* A script that only writes files of its own, and writes into them what it has
\* read, preserves the invariant.
LEMMA DisciplinedStep ==
  ASSUME IInv, ScriptOnly, script # "none", NEW W, Disciplined(W), StageOK'
  PROVE  IInv'
<1> USE DEF ScriptOnly, Disciplined, Known, OwnFile, Content
<1>1. TypeOK'
  BY DEF IInv, TypeOK
<1>2. HasOrigin'
  BY DEF IInv, HasOrigin
<1>3. ManifestOK'
  BY DEF IInv, ManifestOK
<1>4. DriverOK'
  BY DEF IInv, DriverOK
<1>5. NothingOlderThanManifest'
  <2> SUFFICES ASSUME manifest # NoManifest, NEW f \in CLEARED, disk'[f].ok
               PROVE  disk'[f].from \subseteq manifest.run .. run
    BY DEF NothingOlderThanManifest, NoManifest
  <2>1. CASE f \in W
    BY <2>1
  <2>2. CASE f \notin W
    BY <2>2, EvidenceIsCleared DEF IInv, NothingOlderThanManifest
  <2> QED
    BY <2>1, <2>2
<1>6. ManifestAccountsForFiles'
  <2> SUFFICES ASSUME manifest.run = run, run > 0
               PROVE  ManifestAccountsForFiles'
    BY DEF ManifestAccountsForFiles
  <2>1. driver = "stepping"
    BY DEF IInv, TypeOK, DriverOK
  <2> DEFINE s == manifest.steps + 1
  <2>2. s \in 1 .. 6 /\ script = STEPS[s] /\ manifest.status = "running"
    BY <2>1 DEF IInv, TypeOK, DriverOK
  <2>3. ASSUME NEW i \in 1 .. 6, NEW f \in Evidence[i], i # s, s = 1 => f # "traces"
        PROVE  disk'[f] = disk[f]
    <3>1. f \notin W
      BY <2>2, <2>3, StepTable
    <3> QED
      BY <3>1, EvidenceIsCleared
  <2>4. \A i \in 1 .. 6 : \A f \in Evidence[i] :
           /\ i <= s - 1 => disk[f].ok
           /\ i > s /\ f # "traces" => ~Present(f)
    BY <2>2, StepTable DEF IInv, ManifestAccountsForFiles, NoManifest, TypeOK
  <2> SUFFICES ASSUME NEW i \in 1 .. 6, NEW f \in Evidence[i]
               PROVE  /\ i <= s - 1 => disk'[f].ok
                      /\ i > s /\ f # "traces" => ~(Present(f))'
    BY <2>2, StepTable DEF ManifestAccountsForFiles, IInv, TypeOK
  <2>5. CASE i <= s - 1
    <3>1. i # s /\ s # 1 /\ ~(i > s)
      BY <2>2, <2>5
    <3> QED
      BY <3>1, <2>3, <2>4, <2>5
  <2>6. CASE i > s /\ f # "traces"
    <3>1. i # s /\ ~(i <= s - 1)
      BY <2>2, <2>6
    <3>2. disk'[f] = disk[f] /\ ~Present(f)
      BY <3>1, <2>3, <2>4, <2>6
    <3> QED
      BY <3>1, <3>2 DEF Present, Absent
  <2> QED
    BY <2>5, <2>6
<1> QED
  BY <1>1, <1>2, <1>3, <1>4, <1>5, <1>6 DEF IInv

\* What a script makes of nothing comes from the run it is in.
LEMMA KnownContent ==
  ASSUME IInv
  PROVE  /\ \A ok \in BOOLEAN : Made({}, ok) = [from |-> {run}, ok |-> ok]
         /\ Made({}, TRUE).from = {run} /\ Made({}, TRUE).ok
         /\ Made({}, FALSE).from = {run}
         /\ \A f : Known(f, Made({}, TRUE)) /\ Known(f, Made({}, FALSE))
         /\ \A f : \A ok \in BOOLEAN : Known(f, Made({}, ok))
         /\ \A f : Known(f, Absent)
         /\ \A f \in File : Known(f, disk[f])
<1>1. \A ok \in BOOLEAN : Made({}, ok) = [from |-> {run}, ok |-> ok]
  BY DEF Made
<1>2. {run} \subseteq 0 .. run /\ {run} \subseteq manifest.run .. run
  BY DEF IInv, TypeOK
<1>3. \A f : \A ok \in BOOLEAN : Known(f, [from |-> {run}, ok |-> ok])
  BY <1>2 DEF Known, Content
<1>4. \A f : Known(f, Absent)
  BY DEF Known, Content, Absent
<1>5. \A f \in File : Known(f, disk[f])
  BY DEF Known, Content, IInv, TypeOK, HasOrigin, NothingOlderThanManifest
<1>6. /\ Made({}, TRUE) = [from |-> {run}, ok |-> TRUE]
      /\ Made({}, FALSE) = [from |-> {run}, ok |-> FALSE]
  BY DEF Made
<1>7. \A f : Known(f, Made({}, TRUE)) /\ Known(f, Made({}, FALSE))
  BY <1>3, <1>6
<1>8. Made({}, TRUE).from = {run} /\ Made({}, TRUE).ok /\ Made({}, FALSE).from = {run}
  BY DEF Made
<1>9. \A f : \A ok \in BOOLEAN : Known(f, Made({}, ok))
  BY <1>1, <1>3
<1> QED
  BY <1>1, <1>4, <1>5, <1>7, <1>8, <1>9

\* Which files each script may write.
LEMMA OwnFiles ==
  /\ script = "run_regression" => OwnFile("regression") /\ OwnFile("cocotb_junit")
       /\ OwnFile("harness_junit") /\ OwnFile("traces") /\ OwnFile("rtl_xml")
       /\ OwnFile("harness_xml")
  /\ script = "run_lint" => OwnFile("lint_summary")
  /\ script = "run_synth" => OwnFile("synthesis_summary") /\ OwnFile("generic_stat")
  /\ script = "run_fpga" => OwnFile("fpga_summary")
  /\ script = "run_formal" => OwnFile("formal_summary") /\ OwnFile("sby_status")
  /\ script = "generate_results" => \A f \in Reports : OwnFile(f)
  /\ script = "run_vivado" => OwnFile("vivado_reports") /\ OwnFile("vivado_summary")
<1>1. /\ {"regression", "cocotb_junit", "harness_junit", "traces", "generic_stat",
          "vivado_reports"} \subseteq File
      /\ Summaries \subseteq File /\ Reports \subseteq File /\ Build \subseteq File
      /\ "vivado_summary" \in File
  BY DEF File, CLEARED, Raw, KEEP_RESULTS
<1>2. /\ {"rtl_xml", "harness_xml", "sby_status"} = Build
      /\ {"lint_summary", "synthesis_summary", "fpga_summary", "formal_summary"} = Summaries
  BY DEF Build, Summaries
<1>3. \A i \in 1 .. 6 :
        /\ script = "run_regression" /\ script = STEPS[i] => i = 1
        /\ script = "run_lint" /\ script = STEPS[i] => i = 2
        /\ script = "run_synth" /\ script = STEPS[i] => i = 3
        /\ script = "run_fpga" /\ script = STEPS[i] => i = 4
        /\ script = "run_formal" /\ script = STEPS[i] => i = 5
        /\ script = "generate_results" /\ script = STEPS[i] => i = 6
        /\ script = STEPS[i] => script # "run_vivado"
  BY StepTable
<1> QED
  BY <1>1, <1>2, <1>3, EvidenceOf DEF OwnFile

\* A script that ends: what counts is the evidence of its step.
LEMMA StageAtEnd ==
  ASSUME ScriptOnly,
         stage' \in {"passed", "failed"},
         stage' = "passed" =>
           \A i \in 1 .. 6 : script = STEPS[i] => \A f \in Evidence[i] : disk'[f].ok
  PROVE  StageOK'
BY DEF StageOK, ScriptOnly, FromHarness, ToSummary, ToLatency, ToMatrix, ToWaveforms,
       ToVersions

-----------------------------------------------------------------------------
(* The scripts, one by one. *)

\* A script may give up before it has written anything,
LEMMA StopEarlyStep == IInv /\ StopEarly => IInv'
<1> SUFFICES ASSUME IInv, StopEarly PROVE IInv'
  OBVIOUS
<1>1. script # "none" /\ ScriptOnly /\ stage' = "failed" /\ disk' = disk
  BY DEF StopEarly, Exit
<1>2. Disciplined({})
  BY <1>1 DEF Disciplined, IInv, TypeOK, Content
<1>3. StageOK'
  BY <1>1, StageAtEnd
<1> QED
  BY <1>1, <1>2, <1>3, DisciplinedStep

\* A script that writes one file and ends; it passes only if the file is all
\* the evidence of its step, and well.
LEMMA LastWrite ==
  ASSUME IInv, script # "none", ScriptOnly,
         NEW f \in File, NEW content, OwnFile(f), Known(f, content),
         Write(f, content), Exit(content.ok),
         \A i \in 1 .. 6 : script = STEPS[i] => Evidence[i] = {f}
  PROVE  IInv'
<1>1. disk' = [disk EXCEPT ![f] = content] /\ disk' \in [File -> Content] /\ disk'[f] = content
  BY DEF Write, Known, IInv, TypeOK, Content
<1>2. Disciplined({f})
  BY <1>1 DEF Disciplined, IInv, TypeOK
<1>3. stage' = IF content.ok THEN "passed" ELSE "failed"
  BY DEF Exit
<1>4. StageOK'
  BY <1>1, <1>3, StageAtEnd
<1> QED
  BY <1>2, <1>4, DisciplinedStep

\* write its summary,
LEMMA LintStep == IInv /\ run_lint => IInv'
<1> SUFFICES ASSUME IInv, run_lint PROVE IInv'
  OBVIOUS
<1>1. PICK clean \in BOOLEAN : Write("lint_summary", Made({}, clean)) /\ Exit(clean)
  BY DEF run_lint
<1>2. script = "run_lint" /\ ScriptOnly /\ OwnFile("lint_summary")
  BY OwnFiles DEF run_lint, At
<1>3. Known("lint_summary", Made({}, clean)) /\ Made({}, clean).ok = clean
  BY KnownContent
<1>4. \A i \in 1 .. 6 : script = STEPS[i] => Evidence[i] = {"lint_summary"}
  BY <1>2, StepTable, EvidenceTable
<1> QED
  BY <1>1, <1>2, <1>3, <1>4, LastWrite DEF OwnFile

\* the FPGA summary, from every seed or not,
LEMMA FpgaStep == IInv /\ run_fpga => IInv'
<1> SUFFICES ASSUME IInv, run_fpga PROVE IInv'
  OBVIOUS
<1>1. PICK ok \in BOOLEAN : Write("fpga_summary", Made({}, ok)) /\ Exit(ok)
  BY DEF run_fpga
<1>2. script = "run_fpga" /\ ScriptOnly /\ OwnFile("fpga_summary")
  BY OwnFiles DEF run_fpga, At
<1>3. Known("fpga_summary", Made({}, ok)) /\ Made({}, ok).ok = ok
  BY KnownContent
<1>4. \A i \in 1 .. 6 : script = STEPS[i] => Evidence[i] = {"fpga_summary"}
  BY <1>2, StepTable, EvidenceTable
<1> QED
  BY <1>1, <1>2, <1>3, <1>4, LastWrite DEF OwnFile

\* what a tool leaves for the summary,
LEMMA ToolStep ==
  ASSUME IInv, script # "none", ScriptOnly,
         NEW g \in File, NEW left, OwnFile(g), Known(g, left),
         Write(g, left), stage' = "summary"
  PROVE  IInv'
<1>1. disk' = [disk EXCEPT ![g] = left] /\ disk' \in [File -> Content] /\ disk'[g] = left
  BY DEF Write, Known, IInv, TypeOK, Content
<1>2. Disciplined({g})
  BY <1>1 DEF Disciplined, IInv, TypeOK
<1>3. StageOK'
  BY DEF StageOK, FromHarness, ToSummary, ToLatency, ToMatrix, ToWaveforms, ToVersions
<1> QED
  BY <1>2, <1>3, DisciplinedStep

\* and a summary that quotes it: well only if what it quotes is of this run.
LEMMA QuotingContent ==
  ASSUME IInv, NEW f, NEW g \in File, NEW ok \in BOOLEAN, ok => disk[g].from = {run}
  PROVE  Known(f, Quoting(g, ok)) /\ Quoting(g, ok).ok = ok
<1>1. run \in Nat /\ disk[g].from \subseteq 0 .. run /\ manifest.run \in 0 .. run
  BY DEF IInv, TypeOK
<1>2. {run} \cup disk[g].from \subseteq 0 .. run
  BY <1>1
<1>3. ok => {run} \cup disk[g].from \subseteq manifest.run .. run
  BY <1>1
<1> QED
  BY <1>2, <1>3 DEF Quoting, Known, Content

\* the statistics and the synthesis summary,
LEMMA SynthStep == IInv /\ run_synth => IInv'
<1> SUFFICES ASSUME IInv, run_synth PROVE IInv'
  OBVIOUS
<1>1. script = "run_synth" /\ ScriptOnly /\ OwnFile("synthesis_summary") /\ OwnFile("generic_stat")
  BY OwnFiles DEF run_synth, Synthesize, SynthSummary, At
<1>2. CASE Synthesize
  <2>1. PICK stat \in {disk["generic_stat"], Made({}, TRUE)} : Write("generic_stat", stat)
    BY <1>2 DEF Synthesize
  <2>2. Known("generic_stat", stat) /\ stage' = "summary"
    BY <1>1, <1>2, KnownContent DEF OwnFile, Synthesize
  <2> QED
    BY <1>1, <2>1, <2>2, ToolStep DEF OwnFile
<1>3. CASE SynthSummary
  <2>1. PICK ok \in BOOLEAN : /\ ok => disk["generic_stat"].from = {run}
                             /\ Write("synthesis_summary", Quoting("generic_stat", ok))
                             /\ Exit(ok)
    BY <1>3 DEF SynthSummary
  <2> DEFINE summary == Quoting("generic_stat", ok)
  <2>2. Known("synthesis_summary", summary) /\ summary.ok = ok
    BY <1>1, <2>1, QuotingContent DEF OwnFile
  <2>3. \A i \in 1 .. 6 : script = STEPS[i] => Evidence[i] = {"synthesis_summary"}
    BY <1>1, StepTable, EvidenceTable
  <2>4. Write("synthesis_summary", summary) /\ Exit(summary.ok)
    BY <2>1, <2>2
  <2> HIDE DEF summary
  <2> QED
    BY <1>1, <2>2, <2>3, <2>4, LastWrite DEF OwnFile
<1> QED
  BY <1>2, <1>3 DEF run_synth

\* the status of the proof jobs and their summary,
LEMMA FormalStep == IInv /\ run_formal => IInv'
<1> SUFFICES ASSUME IInv, run_formal PROVE IInv'
  OBVIOUS
<1>1. script = "run_formal" /\ ScriptOnly /\ OwnFile("formal_summary") /\ OwnFile("sby_status")
  BY OwnFiles DEF run_formal, Prove, FormalSummary, At
<1>2. CASE Prove
  <2>1. PICK status \in {disk["sby_status"], Absent, Made({}, TRUE), Made({}, FALSE)} :
          Write("sby_status", status)
    BY <1>2 DEF Prove
  <2>2. Known("sby_status", status) /\ stage' = "summary"
    BY <1>1, <1>2, KnownContent DEF OwnFile, Prove
  <2> QED
    BY <1>1, <2>1, <2>2, ToolStep DEF OwnFile
<1>3. CASE FormalSummary
  <2>1. PICK ok \in BOOLEAN : /\ ok => disk["sby_status"].from = {run}
                             /\ Write("formal_summary", Quoting("sby_status", ok))
                             /\ Exit(ok)
    <3>1. PICK sby_ok \in BOOLEAN :
            LET passed == sby_ok /\ disk["sby_status"].ok
            IN /\ sby_ok => disk["sby_status"].from = {run}
               /\ Write("formal_summary", Quoting("sby_status", passed))
               /\ Exit(passed)
      BY <1>3 DEF FormalSummary
    <3> DEFINE passed == sby_ok /\ disk["sby_status"].ok
    <3>2. passed \in BOOLEAN /\ (passed => disk["sby_status"].from = {run})
      BY <3>1
    <3> QED
      BY <3>1, <3>2
  <2> DEFINE summary == Quoting("sby_status", ok)
  <2>2. Known("formal_summary", summary) /\ summary.ok = ok
    BY <1>1, <2>1, QuotingContent DEF OwnFile
  <2>3. \A i \in 1 .. 6 : script = STEPS[i] => Evidence[i] = {"formal_summary"}
    BY <1>1, StepTable, EvidenceTable
  <2>4. Write("formal_summary", summary) /\ Exit(summary.ok)
    BY <2>1, <2>2
  <2> HIDE DEF summary
  <2> QED
    BY <1>1, <2>2, <2>3, <2>4, LastWrite DEF OwnFile
<1> QED
  BY <1>2, <1>3 DEF run_formal

\* a failed regression,
LEMMA FailedStep ==
  ASSUME IInv, script = "run_regression", ScriptOnly, write_status(FALSE)
  PROVE  IInv'
<1> DEFINE status == Made({}, FALSE)
<1>1. OwnFile("regression")
  BY OwnFiles
<1>2. /\ disk' = [disk EXCEPT !["regression"] = status] /\ stage' = "failed"
      /\ Known("regression", status)
  BY KnownContent DEF write_status, Write, Exit
<1> HIDE DEF status
<1>3. Disciplined({"regression"})
  BY <1>1, <1>2 DEF Disciplined, IInv, TypeOK, Known, Content, OwnFile
<1>4. StageOK'
  BY <1>2, StageAtEnd
<1> QED
  BY <1>3, <1>4, DisciplinedStep

\* which may stop at the model tests,
LEMMA ModelTestsStep == IInv /\ ModelTests => IInv'
<1> SUFFICES ASSUME IInv, ModelTests PROVE IInv'
  OBVIOUS
<1>1. script = "run_regression" /\ ScriptOnly
  BY DEF ModelTests, At
<1>2. CASE write_status(FALSE)
  BY <1>1, <1>2, FailedStep
<1>3. CASE UNCHANGED disk /\ stage' = "rtl"
  <2>1. Disciplined({})
    BY <1>3 DEF Disciplined, IInv, TypeOK, Content
  <2>2. StageOK'
    BY <1>3 DEF StageOK, FromHarness, ToSummary, ToLatency, ToMatrix, ToWaveforms, ToVersions
  <2> QED
    BY <1>1, <2>1, <2>2, DisciplinedStep
<1> QED
  BY <1>2, <1>3 DEF ModelTests

\* What a simulation leaves is its own, whatever was in build/ before.
LEMMA SimulateStep ==
  ASSUME IInv, NEW suite, NEW xml, NEW next, Simulate(suite, xml, next),
         \/ suite = "rtl" /\ xml = "rtl_xml" /\ next = "rtl_simulated"
         \/ suite = "harness" /\ xml = "harness_xml" /\ next = "harness_simulated"
  PROVE  IInv'
<1>1. PICK left \in {Absent, Made({}, TRUE), Made({}, FALSE)},
           traces \in {disk["traces"], Made({}, TRUE), Made({}, FALSE)} :
        disk' = [disk EXCEPT ![xml] = left, !["traces"] = traces]
  BY DEF Simulate, AfterSimulation
<1>2. /\ script = "run_regression" /\ stage = suite /\ stage' = next /\ ScriptOnly
      /\ OwnFile(xml) /\ OwnFile("traces")
  BY OwnFiles DEF Simulate, At
<1>3. Known(xml, left) /\ Known("traces", traces) /\ left.from \subseteq {run}
  <2>1. Absent.from = {}
    BY DEF Absent
  <2> QED
    BY <1>2, <2>1, KnownContent DEF OwnFile
<1>4. xml # "traces" /\ xml # "cocotb_junit"
  OBVIOUS
<1>5. Disciplined({xml, "traces"})
  BY <1>1, <1>2, <1>3, <1>4 DEF Disciplined, IInv, TypeOK, Known, Content, OwnFile
<1>6. disk'[xml].from \subseteq {run} /\ disk'["cocotb_junit"] = disk["cocotb_junit"]
  <2>1. "cocotb_junit" \in File
    BY EvidenceIsCleared, EvidenceTable
  <2> QED
    BY <1>1, <1>2, <1>3, <1>4, <2>1 DEF IInv, TypeOK, OwnFile
<1>7. StageOK'
  BY <1>2, <1>6 DEF IInv, StageOK, ScriptOnly, FromHarness, ToSummary, ToLatency, ToMatrix,
                    ToWaveforms, ToVersions
<1> QED
  BY <1>2, <1>5, <1>7, DisciplinedStep

\* The results file that is kept is of this run.
LEMMA KeepStep ==
  ASSUME IInv, NEW point, NEW xml, NEW copy, NEW next, Keep(point, xml, copy, next),
         \/ /\ point = "rtl_simulated" /\ xml = "rtl_xml"
            /\ copy = "cocotb_junit" /\ next = "rtl_kept"
         \/ /\ point = "harness_simulated" /\ xml = "harness_xml"
            /\ copy = "harness_junit" /\ next = "harness_kept"
  PROVE  IInv'
<1>1. script = "run_regression" /\ stage = point /\ ScriptOnly /\ OwnFile(xml) /\ OwnFile(copy)
  BY OwnFiles DEF Keep, At
<1>2. CASE write_status(FALSE)
  BY <1>1, <1>2, FailedStep
<1>3. CASE Write(copy, disk[xml]) /\ stage' = next
  <2> DEFINE kept == disk[xml]
  <2>1. kept.from \subseteq {run} /\ Known(xml, kept)
    BY <1>1, KnownContent DEF IInv, StageOK, OwnFile
  <2>2. Known(copy, kept) /\ disk' = [disk EXCEPT ![copy] = kept]
    BY <1>3, <2>1 DEF Known, IInv, TypeOK, Write
  <2> HIDE DEF kept
  <2>3. Disciplined({copy})
    BY <1>1, <2>2 DEF Disciplined, IInv, TypeOK, Known, Content, OwnFile
  <2>4. copy = "harness_junit" => disk'["cocotb_junit"].ok
    <3>1. "cocotb_junit" \in File
      BY EvidenceIsCleared, EvidenceTable
    <3> QED
      BY <1>1, <2>2, <3>1 DEF IInv, TypeOK, StageOK, FromHarness
  <2>5. StageOK'
    BY <1>3, <2>4 DEF StageOK, FromHarness, ToSummary, ToLatency, ToMatrix, ToWaveforms,
                      ToVersions
  <2> QED
    BY <1>1, <2>3, <2>5, DisciplinedStep
<1> QED
  BY <1>2, <1>3 DEF Keep

\* A suite is passed only if the file that was kept says so.
LEMMA JudgeStep ==
  ASSUME IInv, NEW point, NEW copy, NEW next, Judge(point, copy, next),
         \/ point = "rtl_kept" /\ copy = "cocotb_junit" /\ next = "harness"
         \/ point = "harness_kept" /\ copy = "harness_junit" /\ next = "status"
  PROVE  IInv'
<1>1. script = "run_regression" /\ stage = point /\ ScriptOnly
  BY DEF Judge, At
<1>2. CASE write_status(FALSE)
  BY <1>1, <1>2, FailedStep
<1>3. CASE disk[copy].ok /\ UNCHANGED disk /\ stage' = next
  <2>1. Disciplined({})
    BY <1>3 DEF Disciplined, IInv, TypeOK, Content
  <2>2. point = "harness_kept" => disk["cocotb_junit"].ok
    BY <1>1 DEF IInv, StageOK, FromHarness
  <2>3. StageOK'
    BY <1>3, <2>2 DEF StageOK, FromHarness, ToSummary, ToLatency, ToMatrix, ToWaveforms,
                      ToVersions
  <2> QED
    BY <1>1, <2>1, <2>3, DisciplinedStep
<1> QED
  BY <1>2, <1>3 DEF Judge

\* or go on to the simulations,
LEMMA RegressionStep == IInv /\ Regression => IInv'
<1> SUFFICES ASSUME IInv, Regression PROVE IInv'
  OBVIOUS
<1>1. CASE ModelTests
  BY <1>1, ModelTestsStep
<1>2. CASE RtlRegression
  BY <1>2, SimulateStep, KeepStep, JudgeStep DEF RtlRegression
<1>3. CASE HardwareHarness
  BY <1>3, SimulateStep, KeepStep, JudgeStep DEF HardwareHarness
<1>4. CASE RegressionPasses
  <2> DEFINE status == Made({}, TRUE)
  <2>1. /\ disk' = [disk EXCEPT !["regression"] = status] /\ stage' = "passed"
        /\ Known("regression", status) /\ status.ok
    BY <1>4, KnownContent DEF RegressionPasses, write_status, Write, Exit
  <2>2. /\ script = "run_regression" /\ stage = "status" /\ ScriptOnly
        /\ OwnFile("regression")
    BY <1>4, OwnFiles DEF RegressionPasses, At
  <2> HIDE DEF status
  <2>3. Disciplined({"regression"})
    BY <2>1, <2>2 DEF Disciplined, IInv, TypeOK, Known, Content, OwnFile
  <2>4. \A f \in Evidence[1] : disk'[f].ok
    <3>1. disk["cocotb_junit"].ok /\ disk["harness_junit"].ok
      BY <2>2 DEF IInv, StageOK, FromHarness
    <3> QED
      BY <2>1, <3>1, EvidenceTable, EvidenceIsCleared DEF IInv, TypeOK
  <2>5. StageOK'
    BY <2>1, <2>2, <2>4, StageAtEnd, StepTable
  <2> QED
    BY <2>2, <2>3, <2>5, DisciplinedStep
<1> QED
  BY <1>1, <1>2, <1>3, <1>4 DEF Regression

\* A report rests on inputs that are well, and so on runs that the manifest knows.
LEMMA ReportKnown ==
  ASSUME IInv, stage \in ToSummary, NEW name, NEW inputs, inputs \subseteq Inputs
  PROVE  Known(name, Made(inputs, TRUE)) /\ Made(inputs, TRUE).ok
<1>1. Inputs \subseteq CLEARED
  BY DEF Inputs, CLEARED, Raw
<1>2. \A f \in inputs : disk[f].from \subseteq 0 .. run
                        /\ (manifest # NoManifest => disk[f].from \subseteq manifest.run .. run)
  BY <1>1, EvidenceIsCleared DEF IInv, TypeOK, StageOK, NothingOlderThanManifest
<1>3. {run} \subseteq 0 .. run /\ {run} \subseteq manifest.run .. run
  BY DEF IInv, TypeOK
<1> DEFINE origin == {run} \cup UNION {disk[f].from : f \in inputs}
<1>4. /\ origin \subseteq 0 .. run /\ origin # {}
      /\ manifest # NoManifest => origin \subseteq manifest.run .. run
  BY <1>2, <1>3
<1>5. Made(inputs, TRUE) = [from |-> origin, ok |-> TRUE]
  BY DEF Made
<1> HIDE DEF origin
<1>6. Known(name, [from |-> origin, ok |-> TRUE])
  BY <1>4 DEF Known, Content
<1>7. Made(inputs, TRUE).ok
  BY DEF Made
<1>8. Known(name, Made(inputs, TRUE))
  BY <1>5, <1>6
<1> QED
  BY <1>7, <1>8

\* and each report of generate_results writes one file from others:
LEMMA ReportStep ==
  ASSUME IInv, NEW name, NEW inputs, NEW next, Report(name, inputs, next),
         inputs \subseteq Inputs,
         \/ name = "regression_summary" /\ next = "latency_metrics"
         \/ name = "latency_metrics" /\ next = "verification_matrix"
         \/ name = "verification_matrix" /\ next = "waveforms"
         \/ name = "waveforms" /\ next = "tool_versions"
         \/ name = "tool_versions" /\ next = "passed"
  PROVE  IInv'
<1> DEFINE report == Made(inputs, TRUE)
<1>1. /\ script = "generate_results" /\ stage = name /\ stage' = next /\ ScriptOnly
      /\ disk' = [disk EXCEPT ![name] = report]
  BY DEF Report, At, Write
<1>2. stage \in ToSummary
  BY <1>1 DEF ToSummary, ToLatency, ToMatrix, ToWaveforms, ToVersions
<1>3. Known(name, report) /\ report.ok
  BY <1>2, ReportKnown
<1>4. OwnFile(name) /\ name \in Reports /\ Inputs \subseteq File /\ name \notin Inputs
  BY <1>1, OwnFiles, EvidenceIsCleared DEF Reports, Inputs, Summaries, CLEARED, Raw
<1> HIDE DEF report
<1>5. Disciplined({name})
  BY <1>1, <1>3, <1>4 DEF Disciplined, IInv, TypeOK, Known, Content, OwnFile
<1>6. /\ disk'[name].ok
      /\ \A f \in File : disk[f].ok => disk'[f].ok
  BY <1>1, <1>3, <1>4 DEF IInv, TypeOK, OwnFile
<1>7. Reports \subseteq File
  BY DEF File, CLEARED
<1>8. \A f \in Inputs : disk'[f].ok
  BY <1>2, <1>4, <1>6 DEF IInv, StageOK
<1>9. /\ disk'["regression_summary"].ok
      /\ stage \in ToLatency => disk'["latency_metrics"].ok
      /\ stage \in ToMatrix => disk'["verification_matrix"].ok
      /\ stage \in ToWaveforms => disk'["waveforms"].ok
      /\ stage \in ToVersions => disk'["tool_versions"].ok
  BY <1>1, <1>6, <1>7 DEF IInv, StageOK, Reports, ToSummary, ToLatency, ToMatrix,
                          ToWaveforms, ToVersions
<1>10. StageOK'
  <2>1. CASE next # "passed"
    BY <1>1, <1>8, <1>9, <2>1 DEF StageOK, FromHarness, ToSummary, ToLatency, ToMatrix,
                                  ToWaveforms, ToVersions
  <2>2. CASE next = "passed"
    <3>1. \A f \in Evidence[6] : disk'[f].ok
      BY <1>1, <1>8, <1>9, <2>2, EvidenceTable
         DEF Reports, Inputs, ToLatency, ToMatrix, ToWaveforms, ToVersions
    <3> QED
      BY <1>1, <2>2, <3>1, StageAtEnd, StepTable
  <2> QED
    BY <2>1, <2>2
<1> QED
  BY <1>1, <1>5, <1>10, DisciplinedStep

\* one after the other,
LEMMA GenerateStep == IInv /\ GenerateResults => IInv'
<1> SUFFICES ASSUME IInv, GenerateResults PROVE IInv'
  OBVIOUS
<1>1. CASE CheckInputs
  <2>1. script = "generate_results" /\ ScriptOnly /\ disk' = disk
    BY <1>1 DEF CheckInputs, At
  <2>2. Disciplined({})
    BY <2>1 DEF Disciplined, IInv, TypeOK, Content
  <2>3. \/ stage' = "regression_summary" /\ \A f \in Inputs : disk[f].ok
        \/ stage' = "failed"
    BY <1>1 DEF CheckInputs
  <2>4. StageOK'
    BY <2>1, <2>3 DEF StageOK, FromHarness, ToSummary, ToLatency, ToMatrix, ToWaveforms,
                      ToVersions
  <2> QED
    BY <2>1, <2>2, <2>4, DisciplinedStep
<1>2. /\ {"regression", "cocotb_junit", "traces"} \subseteq Inputs /\ {"traces"} \subseteq Inputs
      /\ {"cocotb_junit"} \subseteq Inputs
      /\ {"lint_summary", "synthesis_summary", "fpga_summary"} \subseteq Inputs
  BY DEF Inputs, Summaries
<1>3. CASE RegressionReport
  BY <1>2, <1>3, ReportStep DEF RegressionReport
<1>4. CASE LatencyReport
  BY <1>2, <1>4, ReportStep DEF LatencyReport
<1>5. CASE MatrixReport
  BY <1>2, <1>5, ReportStep DEF MatrixReport
<1>6. CASE render_waveforms
  BY <1>2, <1>6, ReportStep DEF render_waveforms
<1>7. CASE VersionsReport
  BY <1>2, <1>7, ReportStep DEF VersionsReport
<1> QED
  BY <1>1, <1>3, <1>4, <1>5, <1>6, <1>7 DEF GenerateResults

\* or the one from the FPGA tool.
LEMMA VivadoStep == IInv /\ (VivadoRuns \/ VivadoSummary) => IInv'
<1> SUFFICES ASSUME IInv, VivadoRuns \/ VivadoSummary PROVE IInv'
  OBVIOUS
<1>1. PICK f \in {"vivado_reports", "vivado_summary"}, ok \in BOOLEAN :
        disk' = [disk EXCEPT ![f] = Made({}, ok)]
  BY DEF VivadoRuns, VivadoSummary, Write
<1>2. /\ script = "run_vivado" /\ ScriptOnly /\ OwnFile(f)
      /\ stage' \in {"passed", "failed", "summary"}
  BY OwnFiles DEF VivadoRuns, VivadoSummary, At, Exit
<1> DEFINE content == Made({}, ok)
<1>3. Known(f, content)
  BY KnownContent
<1>4. disk' = [disk EXCEPT ![f] = content]
  BY <1>1
<1> HIDE DEF content
<1>5. Disciplined({f})
  BY <1>2, <1>3, <1>4 DEF Disciplined, IInv, TypeOK, Known, Content, OwnFile
<1>6. StageOK'
  BY <1>2, StepTable DEF StageOK, ScriptOnly, FromHarness, ToSummary, ToLatency, ToMatrix,
                         ToWaveforms, ToVersions
<1> QED
  BY <1>2, <1>5, <1>6, DisciplinedStep

\* So every step of a script preserves the invariant.
LEMMA ScriptStep == IInv /\ Script => IInv'
BY StopEarlyStep, RegressionStep, LintStep, SynthStep, FpgaStep, FormalStep, GenerateStep,
   VivadoStep DEF Script

-----------------------------------------------------------------------------
(* run_all itself, scripts by hand, and the end of a process. *)

\* A process starts with nothing read and nothing written,
LEMMA StartStep == IInv /\ (StartRunAll \/ StartAlone) => IInv'
<1> SUFFICES ASSUME IInv, StartRunAll \/ StartAlone PROVE IInv'
  OBVIOUS
<1>1. /\ driver = "idle" /\ script = "none" /\ stage = "start"
      /\ run' = run + 1 /\ UNCHANGED <<disk, manifest>> /\ stage' = "start"
      /\ \/ driver' = "clearing" /\ script' = "none"
         \/ driver' = "alone" /\ script' \in Scripts
  BY DEF StartRunAll, StartAlone, IInv, DriverOK
<1>2. TypeOK'
  <2>1. 0 .. run \subseteq 0 .. run + 1
    BY DEF IInv, TypeOK
  <2>2. disk \in [File -> [from : SUBSET (0 .. run + 1), ok : BOOLEAN]]
    BY <2>1 DEF IInv, TypeOK
  <2>3. manifest.run \in 0 .. run + 1
    BY <2>1 DEF IInv, TypeOK
  <2> QED
    BY <1>1, <2>2, <2>3 DEF IInv, TypeOK
<1>3. HasOrigin' /\ ManifestOK'
  BY <1>1 DEF IInv, HasOrigin, ManifestOK
<1>4. DriverOK'
  <2>1. "none" \notin Scripts
    BY StepTable DEF Scripts
  <2>2. run' > 0 /\ manifest.run < run' /\ manifest' = manifest
    BY <1>1 DEF IInv, TypeOK
  <2> QED
    BY <1>1, <2>1, <2>2 DEF DriverOK
<1>5. StageOK'
  BY <1>1 DEF StageOK, FromHarness, ToSummary, ToLatency, ToMatrix, ToWaveforms, ToVersions
<1>6. NothingOlderThanManifest'
  <2>1. manifest.run .. run \subseteq manifest.run .. run + 1
    BY DEF IInv, TypeOK
  <2> QED
    BY <1>1, <2>1 DEF IInv, NothingOlderThanManifest, NoManifest
<1>7. ManifestAccountsForFiles'
  BY <1>1 DEF IInv, TypeOK, ManifestAccountsForFiles
<1> QED
  BY <1>2, <1>3, <1>4, <1>5, <1>6, <1>7 DEF IInv

\* and its end leaves the files as they are.
LEMMA EndStep == IInv /\ (Return \/ Kill) => IInv'
<1> SUFFICES ASSUME IInv, Return \/ Kill PROVE IInv'
  OBVIOUS
<1>1. /\ driver' = "idle" /\ script' = "none" /\ stage' = "start"
      /\ UNCHANGED <<disk, manifest, run>>
  BY DEF Return, Kill
<1>2. TypeOK' /\ HasOrigin' /\ ManifestOK' /\ DriverOK'
  BY <1>1 DEF IInv, TypeOK, HasOrigin, ManifestOK, DriverOK
<1>3. StageOK'
  BY <1>1 DEF StageOK, FromHarness, ToSummary, ToLatency, ToMatrix, ToWaveforms, ToVersions
<1>4. NothingOlderThanManifest' /\ ManifestAccountsForFiles'
  BY <1>1 DEF IInv, NothingOlderThanManifest, ManifestAccountsForFiles, Present
<1> QED
  BY <1>2, <1>3, <1>4 DEF IInv

\* Nothing is added while results/ is cleared, and the manifest of the new run
\* comes when all is gone.
LEMMA ClearStep == IInv /\ Clear => IInv'
<1> SUFFICES ASSUME IInv, Clear PROVE IInv'
  OBVIOUS
<1>1. /\ driver = "clearing" /\ UNCHANGED <<run, driver, script, stage>>
      /\ script = "none" /\ stage = "start" /\ run > 0 /\ manifest.run < run
  BY DEF Clear, IInv, DriverOK
<1>2. /\ disk' \in [File -> Content]
      /\ \A f \in File : disk'[f] = disk[f] \/ disk'[f] = Absent
  <2>1. CASE disk' = disk
    BY <2>1 DEF Content, IInv, TypeOK
  <2>2. ASSUME NEW entry, disk' = [f \in File |-> IF f \in entry THEN Absent ELSE disk[f]]
        PROVE  /\ disk' \in [File -> Content]
               /\ \A f \in File : disk'[f] = disk[f] \/ disk'[f] = Absent
    <3>1. Absent \in Content
      BY DEF Absent, Content
    <3> QED
      BY <2>2, <3>1 DEF Content, IInv, TypeOK
  <2> QED
    BY <2>1, <2>2 DEF Clear
<1>3. manifest' = manifest \/ manifest' = NoManifest
  BY DEF Clear
<1>4. TypeOK'
  BY <1>1, <1>2, <1>3 DEF IInv, TypeOK, Content, NoManifest
<1>5. HasOrigin' /\ NothingOlderThanManifest'
  BY <1>1, <1>2, <1>3, EvidenceIsCleared
     DEF IInv, HasOrigin, NothingOlderThanManifest, Absent
<1>6. ManifestOK' /\ DriverOK' /\ ManifestAccountsForFiles'
  BY <1>1, <1>3 DEF IInv, TypeOK, ManifestOK, DriverOK, ManifestAccountsForFiles, NoManifest
<1>7. StageOK'
  BY <1>1 DEF StageOK, FromHarness, ToSummary, ToLatency, ToMatrix, ToWaveforms, ToVersions
<1> QED
  BY <1>4, <1>5, <1>6, <1>7 DEF IInv

\* A run starts its manifest when nothing of an earlier run is left,
LEMMA ManifestStep == IInv /\ write_manifest => IInv'
<1> SUFFICES ASSUME IInv, write_manifest PROVE IInv'
  OBVIOUS
<1>1. /\ driver = "clearing" /\ driver' = "stepping" /\ UNCHANGED <<disk, run, script, stage>>
      /\ manifest' = [run |-> run, status |-> "running", steps |-> 0]
      /\ script = "none" /\ stage = "start" /\ run > 0
  BY DEF write_manifest, IInv, DriverOK
<1>2. \A f \in CLEARED : ~Present(f) /\ ~disk[f].ok
  <2> SUFFICES ASSUME NEW f \in CLEARED PROVE ~Present(f)
    BY DEF Present, Absent
  <2>1. PICK entry \in Entries : f \in entry
    BY DEF Entries, CLEARED
  <2> QED
    BY <2>1 DEF write_manifest
<1>3. TypeOK' /\ HasOrigin' /\ ManifestOK' /\ DriverOK'
  BY <1>1 DEF IInv, TypeOK, HasOrigin, ManifestOK, DriverOK
<1>4. StageOK'
  BY <1>1 DEF StageOK, FromHarness, ToSummary, ToLatency, ToMatrix, ToWaveforms, ToVersions
<1>5. NothingOlderThanManifest'
  BY <1>1, <1>2 DEF NothingOlderThanManifest
<1>6. ManifestAccountsForFiles'
  BY <1>1, <1>2, EvidenceIsCleared, StepTable DEF ManifestAccountsForFiles, Present
<1> QED
  BY <1>3, <1>4, <1>5, <1>6 DEF IInv

\* starts the next script when the one before has passed,
LEMMA RunStepStep == IInv /\ RunStep => IInv'
<1> SUFFICES ASSUME IInv, RunStep PROVE IInv'
  OBVIOUS
<1>1. /\ driver = "stepping" /\ UNCHANGED <<disk, manifest, run, driver>>
      /\ manifest.steps < 6 /\ script' = STEPS[manifest.steps + 1] /\ stage' = "start"
  BY StepTable DEF RunStep
<1>2. script' \in Scripts /\ script' # "none"
  <2>1. manifest.steps + 1 \in 1 .. 6
    BY <1>1 DEF IInv, TypeOK
  <2> QED
    BY <1>1, <2>1, StepTable
<1>3. TypeOK' /\ HasOrigin' /\ ManifestOK' /\ DriverOK'
  BY <1>1, <1>2 DEF IInv, TypeOK, HasOrigin, ManifestOK, DriverOK
<1>4. StageOK'
  BY <1>1 DEF StageOK, FromHarness, ToSummary, ToLatency, ToMatrix, ToWaveforms, ToVersions
<1>5. NothingOlderThanManifest' /\ ManifestAccountsForFiles'
  BY <1>1 DEF IInv, NothingOlderThanManifest, ManifestAccountsForFiles, Present
<1> QED
  BY <1>3, <1>4, <1>5 DEF IInv

\* A step that has passed has left its evidence, so that the manifest may count
\* it; one that failed counts as reached.
LEMMA RecordStepStep == IInv /\ RecordStep => IInv'
<1> SUFFICES ASSUME IInv, RecordStep PROVE IInv'
  OBVIOUS
<1> DEFINE s == manifest.steps + 1
<1>1. /\ driver = "stepping" /\ stage \in {"passed", "failed"}
      /\ UNCHANGED <<disk, run>> /\ script' = "none" /\ stage' = "start"
      /\ driver' = IF stage = "failed" THEN "idle" ELSE "stepping"
  BY DEF RecordStep
<1>2. manifest.run = run /\ run > 0 /\ manifest.status = "running"
  BY <1>1 DEF IInv, DriverOK
<1>3. s \in 1 .. 6 /\ script = STEPS[s]
  BY <1>1 DEF IInv, TypeOK, DriverOK
<1>4. /\ manifest'.run = run /\ manifest'.steps = s
      /\ manifest'.status = IF stage = "failed" THEN "fail" ELSE "running"
      /\ manifest' \in [run : 0 .. run, status : {"none", "running", "fail", "pass"},
                        steps : 0 .. 6]
  <2>1. run \in Nat
    BY DEF IInv, TypeOK
  <2>2. PICK k \in 0 .. 5 : manifest = [run |-> run, status |-> "running", steps |-> k]
    BY <1>2, <1>3 DEF IInv, TypeOK
  <2>3. manifest.steps = k /\ s = k + 1
    BY <2>2
  <2>4. CASE stage = "failed"
    <3>1. manifest' = [run |-> run, status |-> "fail", steps |-> k + 1]
      BY <2>2, <2>4 DEF RecordStep
    <3> HIDE DEF s
    <3> QED
      BY <2>1, <2>3, <2>4, <3>1
  <2>5. CASE stage # "failed"
    <3>1. manifest' = [run |-> run, status |-> "running", steps |-> k + 1]
      BY <2>2, <2>5 DEF RecordStep
    <3> HIDE DEF s
    <3> QED
      BY <2>1, <2>3, <2>5, <3>1
  <2> QED
    BY <2>4, <2>5
<1>5. TypeOK' /\ HasOrigin' /\ ManifestOK'
  BY <1>1, <1>3, <1>4 DEF IInv, TypeOK, HasOrigin, ManifestOK
<1>6. DriverOK'
  BY <1>1, <1>2, <1>4 DEF DriverOK
<1>7. StageOK'
  BY <1>1 DEF StageOK, FromHarness, ToSummary, ToLatency, ToMatrix, ToWaveforms, ToVersions
<1>8. NothingOlderThanManifest'
  <2>1. manifest # NoManifest
    BY <1>2 DEF NoManifest
  <2> QED
    BY <1>1, <1>2, <1>4, <2>1 DEF IInv, NothingOlderThanManifest
<1>9. ManifestAccountsForFiles'
  <2>1. \A i \in 1 .. 6 : \A f \in Evidence[i] :
          /\ i <= s - 1 => disk[f].ok
          /\ i > s /\ f # "traces" => ~Present(f)
    BY <1>2, <1>3, StepTable DEF IInv, ManifestAccountsForFiles, NoManifest, TypeOK
  <2>2. stage = "passed" => \A f \in Evidence[s] : disk[f].ok
    BY <1>3 DEF IInv, StageOK
  <2>3. \A i \in 1 .. 6 : \A f \in Evidence[i] :
          /\ i <= (IF stage = "failed" THEN s - 1 ELSE s) => disk[f].ok
          /\ i > s /\ f # "traces" => ~Present(f)
    <3> SUFFICES ASSUME NEW i \in 1 .. 6, NEW f \in Evidence[i],
                        i <= (IF stage = "failed" THEN s - 1 ELSE s)
                 PROVE  disk[f].ok
      BY <2>1
    <3>1. i <= s - 1 \/ (i = s /\ stage = "passed")
      BY <1>1, <1>3
    <3> QED
      BY <2>1, <2>2, <3>1
  <2> HIDE DEF s
  <2> QED
    BY <1>1, <1>3, <1>4, <2>3, StepTable DEF ManifestAccountsForFiles, Present
<1> QED
  BY <1>5, <1>6, <1>7, <1>8, <1>9 DEF IInv

\* and has passed when the last one has.
LEMMA FinishPassStep == IInv /\ FinishPass => IInv'
<1> SUFFICES ASSUME IInv, FinishPass PROVE IInv'
  OBVIOUS
<1>1. /\ driver = "stepping" /\ driver' = "idle" /\ UNCHANGED <<disk, run, script, stage>>
      /\ script = "none" /\ manifest.steps = 6
  BY StepTable DEF FinishPass
<1>2. manifest.run = run /\ run > 0 /\ manifest.status = "running"
  BY <1>1 DEF IInv, DriverOK
<1>3. /\ manifest'.run = run /\ manifest'.steps = 6 /\ manifest'.status = "pass"
      /\ manifest' \in [run : 0 .. run, status : {"none", "running", "fail", "pass"},
                        steps : 0 .. 6]
  BY <1>1, <1>2 DEF FinishPass, IInv, TypeOK
<1>4. TypeOK' /\ HasOrigin' /\ ManifestOK'
  BY <1>1, <1>3 DEF IInv, TypeOK, HasOrigin, ManifestOK
<1>5. DriverOK' /\ StageOK'
  BY <1>1, <1>3 DEF IInv, DriverOK, StageOK
<1>6. NothingOlderThanManifest'
  <2>1. manifest # NoManifest
    BY <1>2 DEF NoManifest
  <2> QED
    BY <1>1, <1>2, <1>3, <2>1 DEF IInv, NothingOlderThanManifest
<1>7. ManifestAccountsForFiles'
  <2>1. \A i \in 1 .. 6 : \A f \in Evidence[i] : i <= 6 => disk[f].ok
    BY <1>1, <1>2, StepTable DEF IInv, ManifestAccountsForFiles, NoManifest
  <2>2. \A i \in 1 .. 6 : i <= 6 /\ ~(i > 6)
    OBVIOUS
  <2> QED
    BY <1>1, <1>3, <2>1, <2>2, StepTable DEF ManifestAccountsForFiles
<1> QED
  BY <1>4, <1>5, <1>6, <1>7 DEF IInv

-----------------------------------------------------------------------------
(* The specification. *)

\* The invariant holds at first,
LEMMA InitStep == Init => IInv
<1> SUFFICES ASSUME Init PROVE IInv
  OBVIOUS
<1>1. /\ run = 0 /\ driver = "idle" /\ script = "none" /\ stage = "start"
      /\ manifest = [run |-> 0, status |-> "pass", steps |-> 6]
  BY StepTable DEF Init
<1>2. /\ disk \in [File -> Content]
      /\ \A f \in File : disk[f] = [from |-> {0}, ok |-> TRUE] \/ disk[f] = Absent
  BY <1>1 DEF Init, Content, Absent
<1>3. TypeOK
  BY <1>1, <1>2 DEF TypeOK, Content
<1>4. HasOrigin
  BY <1>2 DEF HasOrigin, Absent
<1>5. ManifestOK /\ DriverOK /\ ManifestAccountsForFiles
  BY <1>1 DEF ManifestOK, DriverOK, ManifestAccountsForFiles
<1>6. StageOK
  BY <1>1 DEF StageOK, FromHarness, ToSummary, ToLatency, ToMatrix, ToWaveforms, ToVersions
<1>7. NothingOlderThanManifest
  BY <1>1, <1>2, EvidenceIsCleared DEF NothingOlderThanManifest, Absent
<1> QED
  BY <1>3, <1>4, <1>5, <1>6, <1>7 DEF IInv

\* and every step preserves it.
LEMMA NextStep == IInv /\ [Next]_vars => IInv'
<1> SUFFICES ASSUME IInv, [Next]_vars PROVE IInv'
  OBVIOUS
<1>1. CASE Driver
  BY <1>1, StartStep, ClearStep, ManifestStep, RunStepStep, RecordStepStep, FinishPassStep
     DEF Driver
<1>2. CASE StartAlone
  BY <1>2, StartStep
<1>3. CASE Return \/ Kill
  BY <1>3, EndStep
<1>4. CASE Script
  BY <1>4, ScriptStep
<1>5. CASE UNCHANGED vars
  <2>1. TypeOK' /\ HasOrigin' /\ ManifestOK' /\ DriverOK'
    BY <1>5 DEF vars, IInv, TypeOK, HasOrigin, ManifestOK, DriverOK
  <2>2. StageOK'
    BY <1>5 DEF vars, IInv, StageOK
  <2>3. NothingOlderThanManifest' /\ ManifestAccountsForFiles'
    BY <1>5 DEF vars, IInv, NothingOlderThanManifest, ManifestAccountsForFiles, Present
  <2> QED
    BY <2>1, <2>2, <2>3 DEF IInv
<1> QED
  BY <1>1, <1>2, <1>3, <1>4, <1>5 DEF Next

\* The invariant, which holds of every sequence of runs, scripts by hand and kills.
THEOREM Invariant == Spec => []IInv
BY InitStep, NextStep, PTL DEF Spec

\* A "pass" in the newest manifest is the manifest of a run whose evidence is all
\* in results/, all well, and all its own (run_all.py:141-145).
THEOREM PassHasItsEvidence == Spec => []PassIsEarned
<1>1. IInv => PassIsEarned
  <2> SUFFICES ASSUME IInv, manifest.status = "pass", manifest.run = run, run > 0,
                      NEW i \in DOMAIN STEPS, NEW f \in Evidence[i]
               PROVE  disk[f] = [from |-> {run}, ok |-> TRUE]
    BY DEF PassIsEarned
  <2>1. i \in 1 .. 6 /\ manifest.steps = 6 /\ manifest # NoManifest
    BY StepTable DEF IInv, ManifestOK, NoManifest
  <2>2. disk[f].ok
    BY <2>1, StepTable DEF IInv, ManifestAccountsForFiles
  <2>3. /\ f \in CLEARED /\ f \in File /\ run \in Nat
        /\ disk[f] \in [from : SUBSET (0 .. run), ok : BOOLEAN]
    BY <2>1, EvidenceIsCleared DEF IInv, TypeOK
  <2>4. disk[f].from \subseteq run .. run /\ disk[f].from # {}
    BY <2>1, <2>2, <2>3 DEF IInv, NothingOlderThanManifest, HasOrigin
  <2>5. disk[f].from = {run}
    BY <2>3, <2>4
  <2> QED
    BY <2>2, <2>3, <2>5
<1> QED
  BY <1>1, Invariant, PTL

\* What says in results/ that all is well is never older than the manifest beside
\* it, interrupted runs and scripts by hand included (run_all.py:88).
THEOREM ResultsAreFresh == Spec => []NothingOlderThanManifest
<1>1. IInv => NothingOlderThanManifest
  BY DEF IInv
<1> QED
  BY <1>1, Invariant, PTL

\* The steps in the newest manifest are those whose evidence is there
\* (run_all.py:114-139).
THEOREM ManifestIsAccurate == Spec => []ManifestAccountsForFiles
<1>1. IInv => ManifestAccountsForFiles
  BY DEF IInv
<1> QED
  BY <1>1, Invariant, PTL

=============================================================================
