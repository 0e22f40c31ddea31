------------------------------ MODULE RunAll ------------------------------
(***************************************************************************)
(* scripts/run_all.py and the scripts it runs: what is in results/ while   *)
(* they write it, which run it comes from, and what the manifest says of   *)
(* it.  A tool (simulator, linter, synthesis, router, prover) may be       *)
(* missing, fail, or leave no output; a process may be killed at any       *)
(* moment; each script may also be started by hand.                        *)
(*                                                                         *)
(* A file is known by the runs that its content comes from, and by whether *)
(* it says that all is well.  Runs are numbered in the order in which they *)
(* are started; 0 is the one whose reports the repository comes with.      *)
(***************************************************************************)
EXTENDS Naturals, Sequences

CONSTANTS SEEDS,         \* of place and route
          MAX_RUNS       \* bound on the runs started

ASSUME RunAssumption == MAX_RUNS \in Nat

STEPS == <<"run_regression", "run_lint", "run_synth", "run_fpga", "run_formal",
           "generate_results">>
Scripts == {STEPS[i] : i \in DOMAIN STEPS} \cup {"run_vivado"}

\* The directory raw/, the other entries of results/, and what outlives a run.
Raw == {"regression", "cocotb_junit", "harness_junit", "traces", "generic_stat",
        "vivado_reports"}
Summaries == {"lint_summary", "synthesis_summary", "fpga_summary", "formal_summary"}
Reports == {"regression_summary", "latency_metrics", "verification_matrix", "waveforms",
            "tool_versions"}
CLEARED == Raw \cup Summaries \cup Reports
KEEP_RESULTS == {"vivado_summary"}
Build == {"rtl_xml", "harness_xml", "sby_status"}
File == CLEARED \cup KEEP_RESULTS \cup Build

VARIABLES disk,       \* the content of each file
          manifest,   \* run_manifest.json
          run,        \* runs started
          driver,     \* who started the script at work, or what run_all is doing
          script, stage

vars == <<disk, manifest, run, driver, script, stage>>

Absent == [from |-> {}, ok |-> FALSE]
Made(inputs, ok) == [from |-> {run} \cup UNION {disk[f].from : f \in inputs}, ok |-> ok]
Present(f) == disk[f] # Absent
NoManifest == [run |-> 0, status |-> "none", steps |-> 0]

Init ==
  /\ disk = [f \in File |-> IF f \in Summaries \cup Reports \cup KEEP_RESULTS
                              THEN [from |-> {0}, ok |-> TRUE] ELSE Absent]
  /\ manifest = [run |-> 0, status |-> "pass", steps |-> Len(STEPS)]
  /\ run = 0 /\ driver = "idle" /\ script = "none" /\ stage = "start"

-----------------------------------------------------------------------------
(* run_all.py *)

StartRunAll ==
  /\ driver = "idle" /\ run < MAX_RUNS
  /\ run' = run + 1 /\ driver' = "clearing"
  /\ UNCHANGED <<disk, manifest, script, stage>>

\* Fault: the directories in results/ are skipped.
FilesOnly == {{f} : f \in Summaries \cup Reports}

\* The entries of the directory come in any order.
Entries == {Raw} \cup {{f} : f \in Summaries \cup Reports}

Clear ==
  /\ driver = "clearing"
  /\ \/ /\ \E entry \in Entries :
             /\ \E f \in entry : Present(f)
             /\ disk' = [f \in File |-> IF f \in entry THEN Absent ELSE disk[f]]
        /\ UNCHANGED manifest
     \/ /\ manifest # NoManifest
        /\ manifest' = NoManifest /\ UNCHANGED disk
  /\ UNCHANGED <<run, driver, script, stage>>

write_manifest ==
  /\ driver = "clearing" /\ manifest = NoManifest
  /\ \A entry \in Entries : \A f \in entry : ~Present(f)
  /\ manifest' = [run |-> run, status |-> "running", steps |-> 0]
  /\ driver' = "stepping"
  /\ UNCHANGED <<disk, run, script, stage>>

RunStep ==
  /\ driver = "stepping" /\ script = "none" /\ manifest.steps < Len(STEPS)
  /\ script' = STEPS[manifest.steps + 1] /\ stage' = "start"
  /\ UNCHANGED <<disk, manifest, run, driver>>

\* Fault: a step that fails does not stop the run.
RecordAndGoOn ==
  /\ driver = "stepping" /\ stage \in {"passed", "failed"}
  /\ manifest' = [manifest EXCEPT !.steps = @ + 1]
  /\ script' = "none" /\ stage' = "start"
  /\ UNCHANGED <<disk, run, driver>>

\* The first step that fails is the last one.
RecordStep ==
  /\ driver = "stepping" /\ stage \in {"passed", "failed"}
  /\ manifest' = [manifest EXCEPT !.steps = @ + 1,
                                  !.status = IF stage = "failed" THEN "fail" ELSE @]
  /\ driver' = IF stage = "failed" THEN "idle" ELSE driver
  /\ script' = "none" /\ stage' = "start"
  /\ UNCHANGED <<disk, run>>

FinishPass ==
  /\ driver = "stepping" /\ script = "none" /\ manifest.steps = Len(STEPS)
  /\ manifest' = [manifest EXCEPT !.status = "pass"]
  /\ driver' = "idle"
  /\ UNCHANGED <<disk, run, script, stage>>

-----------------------------------------------------------------------------
(* A script by hand; the end of a process. *)

StartAlone ==
  /\ driver = "idle" /\ run < MAX_RUNS
  /\ run' = run + 1 /\ driver' = "alone"
  /\ script' \in Scripts /\ stage' = "start"
  /\ UNCHANGED <<disk, manifest>>

Return ==
  /\ driver = "alone" /\ stage \in {"passed", "failed"}
  /\ driver' = "idle" /\ script' = "none" /\ stage' = "start"
  /\ UNCHANGED <<disk, manifest, run>>

\* An interrupt, a cancelled job or its time limit, an exception of run_all.
Kill ==
  /\ driver # "idle"
  /\ driver' = "idle" /\ script' = "none" /\ stage' = "start"
  /\ UNCHANGED <<disk, manifest, run>>

-----------------------------------------------------------------------------
(* What the scripts do. *)

At(name, point) == script = name /\ stage = point
Exit(ok) == stage' = IF ok THEN "passed" ELSE "failed"
Write(f, content) == disk' = [disk EXCEPT ![f] = content]
ScriptOnly == UNCHANGED <<manifest, run, driver, script>>

\* A tool is missing or does not tell its version, or a file cannot be read:
\* the script ends without writing anything more, and what an older one wrote
\* stays where it is.
StopEarly ==
  /\ script # "none" /\ stage \notin {"passed", "failed"}
  /\ Exit(FALSE) /\ UNCHANGED disk /\ ScriptOnly

\* run_regression.py.  A suite fails by its exit status, or by the results
\* file that the simulator leaves in build/: none, or one with a test that
\* did not pass, or with no test.
write_status(ok) == Write("regression", Made({}, ok)) /\ Exit(ok)

ModelTests ==
  /\ At("run_regression", "start")
  /\ \/ write_status(FALSE)
     \/ UNCHANGED disk /\ stage' = "rtl"
  /\ ScriptOnly

\* Fault: the results file of an earlier simulation is left in place.
AfterSimulationKept(xml, left) == IF left = Absent THEN disk[xml] ELSE left

AfterSimulation(xml, left) == left       \* unlink, then whatever this one leaves

\* All tests of the filter have passed only if each has written its traces.
Simulate(suite, xml, next) ==
  /\ At("run_regression", suite)
  /\ \E left \in {Absent, Made({}, TRUE), Made({}, FALSE)},
        traces \in {disk["traces"], Made({}, TRUE), Made({}, FALSE)} :
       /\ suite = "harness" => traces = disk["traces"]
       /\ suite = "rtl" /\ left.ok => traces # disk["traces"]
       /\ disk' = [disk EXCEPT ![xml] = AfterSimulation(xml, left), !["traces"] = traces]
  /\ stage' = next /\ ScriptOnly

\* The results file is kept in raw/, if there is one,
Keep(point, xml, copy, next) ==
  /\ At("run_regression", point)
  /\ \/ disk[xml] = Absent /\ write_status(FALSE)
     \/ disk[xml] # Absent /\ Write(copy, disk[xml]) /\ stage' = next
  /\ ScriptOnly

\* and read there.
Judge(point, copy, next) ==
  /\ At("run_regression", point)
  /\ \E pytest_ok \in BOOLEAN :
       IF disk[copy].ok /\ pytest_ok THEN UNCHANGED disk /\ stage' = next
                                    ELSE write_status(FALSE)
  /\ ScriptOnly

RtlRegression == \/ Simulate("rtl", "rtl_xml", "rtl_simulated")
                 \/ Keep("rtl_simulated", "rtl_xml", "cocotb_junit", "rtl_kept")
                 \/ Judge("rtl_kept", "cocotb_junit", "harness")
HardwareHarness == \/ Simulate("harness", "harness_xml", "harness_simulated")
                   \/ Keep("harness_simulated", "harness_xml", "harness_junit", "harness_kept")
                   \/ Judge("harness_kept", "harness_junit", "status")

RegressionPasses ==
  /\ At("run_regression", "status")
  /\ write_status(TRUE) /\ ScriptOnly

run_lint ==
  /\ At("run_lint", "start")
  /\ \E clean \in BOOLEAN : Write("lint_summary", Made({}, clean)) /\ Exit(clean)
  /\ ScriptOnly

\* A summary that quotes a file that a tool has left.
Quoting(f, ok) == [from |-> {run} \cup disk[f].from, ok |-> ok]

\* Yosys may fail and leave the statistics of an earlier run to be read.
Synthesize ==
  /\ At("run_synth", "start")
  /\ \E stat \in {disk["generic_stat"], Made({}, TRUE)} : Write("generic_stat", stat)
  /\ stage' = "summary" /\ ScriptOnly

SynthSummary ==
  /\ At("run_synth", "summary")
  /\ \E yosys_ok, clean \in BOOLEAN :
       LET ok == yosys_ok /\ clean /\ Present("generic_stat")
       IN /\ yosys_ok => disk["generic_stat"].from = {run}
          /\ Write("synthesis_summary", Quoting("generic_stat", ok))
          /\ Exit(ok)
  /\ ScriptOnly

run_synth == Synthesize \/ SynthSummary

\* A seed that is not routed is a problem, and the next one is tried.
run_fpga ==
  /\ At("run_fpga", "start")
  /\ \E xc7, ecp5, fast_enough \in BOOLEAN, routed \in SUBSET SEEDS :
       LET runs == IF ecp5 THEN routed ELSE {}
           problems == ~xc7 \/ ~ecp5 \/ SEEDS \ runs # {} \/ (runs # {} /\ ~fast_enough)
           ok == ~problems /\ runs # {}
       IN Write("fpga_summary", Made({}, ok)) /\ Exit(ok)
  /\ ScriptOnly

\* A task that does not get as far as its status leaves none, or that of an earlier
\* run, and the summary of the failure quotes it.
Prove ==
  /\ At("run_formal", "start")
  /\ \E status \in {disk["sby_status"], Absent, Made({}, TRUE), Made({}, FALSE)} :
       Write("sby_status", status)
  /\ stage' = "summary" /\ ScriptOnly

FormalSummary ==
  /\ At("run_formal", "summary")
  /\ \E sby_ok \in BOOLEAN :
       LET passed == sby_ok /\ disk["sby_status"].ok
       IN /\ sby_ok => disk["sby_status"].from = {run}
          /\ Write("formal_summary", Quoting("sby_status", passed))
          /\ Exit(passed)
  /\ ScriptOnly

run_formal == Prove \/ FormalSummary

\* generate_results.py: everything is checked before the first report.  The
\* traces say that all is well if they meet every coverage goal.
Inputs == {"regression", "cocotb_junit", "traces"} \cup Summaries

CheckInputs ==
  /\ At("generate_results", "start")
  /\ stage' = IF \A f \in Inputs : disk[f].ok THEN "regression_summary" ELSE "failed"
  /\ UNCHANGED disk /\ ScriptOnly

Report(name, inputs, next) ==
  /\ At("generate_results", name)
  /\ Write(name, Made(inputs, TRUE)) /\ stage' = next
  /\ ScriptOnly

RegressionReport ==
  Report("regression_summary", {"regression", "cocotb_junit", "traces"}, "latency_metrics")
LatencyReport == Report("latency_metrics", {"traces"}, "verification_matrix")
MatrixReport == Report("verification_matrix", {"cocotb_junit"}, "waveforms")
render_waveforms == Report("waveforms", {"traces"}, "tool_versions")
VersionsReport ==
  Report("tool_versions", {"lint_summary", "synthesis_summary", "fpga_summary"}, "passed")

\* run_vivado.py, by hand only.  A failed run replaces the reports in raw/
\* and leaves the summary of an earlier one.
VivadoRuns ==
  /\ At("run_vivado", "start")
  /\ \E completed \in BOOLEAN :
       /\ Write("vivado_reports", Made({}, completed))
       /\ stage' = IF completed THEN "summary" ELSE "failed"
  /\ ScriptOnly

VivadoSummary ==
  /\ At("run_vivado", "summary")
  /\ \E timing_met \in BOOLEAN : Write("vivado_summary", Made({}, timing_met))
                                 /\ Exit(timing_met)
  /\ ScriptOnly

GenerateResults == \/ CheckInputs \/ RegressionReport \/ LatencyReport \/ MatrixReport
                   \/ render_waveforms \/ VersionsReport
Regression == ModelTests \/ RtlRegression \/ HardwareHarness \/ RegressionPasses
Script == \/ StopEarly \/ Regression \/ run_lint \/ run_synth \/ run_fpga \/ run_formal
          \/ GenerateResults \/ VivadoRuns \/ VivadoSummary
Driver == StartRunAll \/ Clear \/ write_manifest \/ RunStep \/ RecordStep \/ FinishPass
Next == Driver \/ StartAlone \/ Return \/ Kill \/ Script

Spec == Init /\ [][Next]_vars

-----------------------------------------------------------------------------
(* Properties. *)

\* What is there, and well, once a step has passed.
Evidence == <<{"regression", "cocotb_junit", "harness_junit"}, {"lint_summary"},
              {"synthesis_summary"}, {"fpga_summary"}, {"formal_summary"},
              Reports \cup {"traces"}>>

\* "All required engineering checks passed" (run_all.py:141-145): until another
\* run starts, every input and every report is there, says that all is well,
\* and comes from this run alone, whatever earlier runs left in results/, in
\* build/ and in formal/.
PassIsEarned ==
  manifest.status = "pass" /\ manifest.run = run /\ run > 0 =>
    \A i \in DOMAIN STEPS : \A f \in Evidence[i] : disk[f] = [from |-> {run}, ok |-> TRUE]

\* "Clear old results" (run_all.py:88): with a manifest in results/, nothing
\* there that says that all is well rests on a run before the manifest's, after
\* interrupted runs and scripts by hand too.  (A formal summary that reports a
\* failure may quote an older status.)
NothingOlderThanManifest ==
  manifest # NoManifest =>
    \A f \in CLEARED : disk[f].ok => disk[f].from \subseteq manifest.run .. run

\* run_all.py:114-139: until another run starts, the steps in the manifest are
\* those that ran: each but a failed last one left its evidence, and those that
\* were not reached left nothing.
ManifestAccountsForFiles ==
  manifest # NoManifest /\ manifest.run = run /\ run > 0 =>
    LET reached == IF manifest.status = "running" THEN manifest.steps + 1 ELSE manifest.steps
        passed == IF manifest.status = "fail" THEN manifest.steps - 1 ELSE manifest.steps
    IN \A i \in DOMAIN STEPS : \A f \in Evidence[i] :
         /\ i <= passed => disk[f].ok
         /\ i > reached /\ f # "traces" => ~Present(f)
=============================================================================
